---- MODULE Spec2Model ----
(***************************************************************************)
(* A model of the self-healing agent framework: the BaseAgent health state *)
(* machine (src/src/agents/base_agent.py), the SimpleHealingGraph          *)
(* orchestration (src/src/graph/healing_graph.py), the healing pipeline    *)
(* (src/src/agents/healing_agent.py, healing_agent_llm.py), the fix cache  *)
(* (src/src/agents/code_healing_agent.py) and the attack detector of the   *)
(* VulnerableAgent (src/src/agents/vulnerable_agent.py).                   *)
(*                                                                         *)
(* Wall-clock values (timestamps, response times, uptime) are not part of  *)
(* the state: no modelled branch reads them.  An `await` is a point where  *)
(* other coroutines may run, so a handler that awaits is split into one    *)
(* action per stretch of code between two awaits.                          *)
(***************************************************************************)
EXTENDS Integers, Sequences, FiniteSets, TLC

\* ---------------------------------------------------------------- bounds
\* execute() calls started on one agent (caps metrics.total_requests)
MaxExec == 12
\* heal() calls on one agent (caps the length of healing_history)
MaxHeals == 2

\* ------------------------------------------------------ program constants
\* base_agent.py:84  `if self.error_count > 10`
FailedThreshold == 10
\* base_agent.py:86  `elif self.error_count > 3`
DegradedThreshold == 3

\* ------------------------------------------------------------- BaseAgent
\* The agent objects of a run and the callers (coroutines) that invoke them.
AgentObjs == {"a1", "a2", "a3"}
Callers == {"c1", "c2"}
\* The text of the exceptions a task handler raises, and what it returns.
Errors == {"E1"}
Payloads == {"ok"}
Tasks == {"task"}

VARIABLES
    agents,       \* agent object -> the fields of that BaseAgent
    exec_calls,   \* caller -> the execute() call it has in flight or finished
    metrics_calls, \* caller -> the dict its last get_metrics() call returned
    new_calls,    \* caller -> the last constructor call it made
    graph,        \* the SystemState of the SimpleHealingGraph run
    healer,       \* the healing agent: its class and its healing_operations
    heal_calls,   \* caller -> the heal_agent() call it has in flight or finished
    coder,        \* the CodeHealingAgent: code_fixes and bug_patterns
    fix_calls,    \* caller -> its analyze_and_fix_bug() call
    cache_log,    \* history: generate() calls made and fixes stored
    vuln,         \* the VulnerableAgent: BaseAgent fields and its own
    vuln_calls,   \* caller -> its execute() call on the VulnerableAgent
    bench,        \* the BenchmarkRunner: its stand-in LLM and its results
    sec,          \* the SecurityHealingAgent: defenses and threat ledger
    sec_calls,    \* caller -> its analyze_security_attack() call
    sec_log,      \* history: the outcome of every analyze_security_attack
    buggy,        \* the BuggyDataProcessor: BaseAgent fields and its own
    buggy_calls,  \* caller -> its execute() call on the BuggyDataProcessor
    gateway,      \* the APIGatewayAgent: BaseAgent fields and its own
    gateway_calls, \* caller -> its execute() call on the APIGatewayAgent
    gateway_log,  \* history: client -> requests that passed the rate check
    hardener,     \* the SecurityHealingAgent's security_patches
    harden_calls, \* caller -> its harden_agent_security() call
    clock,        \* int(time.time()): the wall clock in whole seconds
    detect_log    \* history: (input, result) of every _detect_attacks call

agent_vars == <<agents, exec_calls, metrics_calls, new_calls>>
graph_vars == <<graph>>
heal_vars == <<healer, heal_calls>>
cache_vars == <<coder, fix_calls, cache_log>>
vuln_vars == <<vuln, vuln_calls, detect_log>>
bench_vars == <<bench>>
buggy_vars == <<buggy, buggy_calls>>
gateway_vars == <<gateway, gateway_calls, gateway_log>>
harden_vars == <<hardener, harden_calls>>
clock_vars == <<clock>>
sec_vars == <<sec, sec_calls, sec_log>>
vars == <<agents, exec_calls, metrics_calls, new_calls, graph, healer, heal_calls,
          coder, fix_calls, cache_log, vuln, vuln_calls, detect_log,
          bench, sec, sec_calls, sec_log, buggy, buggy_calls,
          gateway, gateway_calls, gateway_log, hardener, harden_calls, clock>>

\* average_response_time is a mean of clock readings: 0.0 at creation, and
\* a measured value once a call has succeeded.
ZeroTime == "0.0"
MeasuredTime == "measured"

\* BaseAgent.__init__, lines 18-37, once the arguments are settled
BaseAgent_init(agent_id, agent_type) ==
    [agent_id |-> agent_id,
     agent_type |-> agent_type,
     status |-> "healthy",
     error_count |-> 0,
     metrics |-> [total_requests |-> 0,
                  successful_requests |-> 0,
                  average_response_time |-> ZeroTime,
                  total_errors |-> 0],
     error_history |-> <<>>,
     healing_history |-> <<>>]

\* An argument of a call: passed with a value, or left out (None).
Given(v) == [given |-> TRUE, value |-> v]
NotGiven == [given |-> FALSE]

\* `arg or default`: a left-out argument and an empty string are falsy
arg_or(arg, default) ==
    IF arg.given /\ arg.value # "" THEN arg.value ELSE default

\* a parameter with a default value
arg_default(arg, default) ==
    IF arg.given THEN arg.value ELSE default

\* the constructor when it ignores the id it is given
BaseAgent_new_id_generated(agent_id, agent_type, hex) ==
    BaseAgent_init(arg_default(agent_type, "generic") \o "_" \o hex,
                   arg_default(agent_type, "generic"))

\* BaseAgent(agent_id=None, agent_type="generic"), lines 13-18: the
\* defaults of the parameters and the generated id; hex stands for
\* uuid.uuid4().hex[:8]
BaseAgent_new(agent_id, agent_type, hex) ==
    BaseAgent_init(
        arg_or(agent_id, arg_default(agent_type, "generic") \o "_" \o hex),
        arg_default(agent_type, "generic"))

\* execute() whose increment of total_requests is lost
execute_enter_uncounted(ag) == ag

\* execute(), up to the await of process(): lines 48-50
execute_enter(ag) ==
    [ag EXCEPT !.metrics.total_requests = @ + 1]

\* a success branch that also forgives the errors counted so far
execute_on_return_forgiving(agent) ==
    [agent EXCEPT !.metrics.successful_requests = @ + 1,
                  !.metrics.average_response_time = MeasuredTime,
                  !.error_count = 0,
                  !.status = "healthy"]

\* execute(), the try branch after process() returned: lines 54-62
execute_on_return(ag) ==
    [ag EXCEPT !.metrics.successful_requests = @ + 1,
               !.metrics.average_response_time = MeasuredTime]

\* the dict returned at lines 64-70
result_success(ag, payload) ==
    [raised |-> FALSE, success |-> TRUE, result |-> payload,
     agent_id |-> ag.agent_id]

\* update_status with the two thresholds tested in the wrong order
update_status_degraded_first(status, error_count) ==
    IF error_count > DegradedThreshold THEN "degraded"
    ELSE IF error_count > FailedThreshold THEN "failed"
    ELSE status

\* lines 84-87: the status is rewritten only above a threshold
update_status(status, error_count) ==
    IF error_count > FailedThreshold THEN "failed"
    ELSE IF error_count > DegradedThreshold THEN "degraded"
    ELSE status

\* execute(), the except branch: lines 73-87
execute_on_raise(ag, err, task) ==
    [ag EXCEPT
        !.error_count = @ + 1,
        !.metrics.total_errors = @ + 1,
        !.error_history = Append(@, [error |-> err, task |-> task,
                                     agent_status |-> ag.status]),
        !.status = update_status(ag.status, ag.error_count + 1)]

\* result_failure when the except branch re-raises instead of returning
result_failure_reraised(ag, err) ==
    [raised |-> TRUE, success |-> FALSE, error |-> err,
     agent_id |-> ag.agent_id,
     error_count |-> ag.error_count,
     status |-> ag.status]

\* the dict returned at lines 89-96, built from the updated agent
result_failure(ag, err) ==
    [raised |-> FALSE, success |-> FALSE, error |-> err,
     agent_id |-> ag.agent_id,
     error_count |-> ag.error_count,
     status |-> ag.status]

\* heal() that is left in the "healing" status it sets at line 100
heal_status_not_restored(ag, diagnosis) ==
    [ag EXCEPT
        !.error_count = 0,
        !.status = "healing",
        !.healing_history = Append(@, [action |-> "reset",
                                       old_error_count |-> ag.error_count,
                                       diagnosis |-> diagnosis])]

\* a heal() that also forgets the errors recorded so far
heal_clears_history(agent, diag) ==
    [agent EXCEPT
        !.error_count = 0,
        !.status = "healthy",
        !.error_history = <<>>,
        !.healing_history = Append(@, [action |-> "reset",
                                       old_error_count |-> agent.error_count,
                                       diagnosis |-> diag])]

\* heal(): lines 100-112 (no await: "healing" is never observable)
heal(ag, diagnosis) ==
    [ag EXCEPT
        !.error_count = 0,
        !.status = "healthy",
        !.healing_history = Append(@, [action |-> "reset",
                                       old_error_count |-> ag.error_count,
                                       diagnosis |-> diagnosis])]

\* the dict returned by heal(): lines 114-119
heal_result(ag) ==
    [success |-> TRUE, new_status |-> ag.status, agent_id |-> ag.agent_id]

\* get_metrics() whose needs_healing flag is raised one error early
get_metrics_flag_from_three(a) ==
    [agent_id |-> agents[a].agent_id,
     agent_type |-> agents[a].agent_type,
     status |-> agents[a].status,
     error_count |-> agents[a].error_count,
     metrics |-> [ref |-> a],
     needs_healing |-> agents[a].error_count >= DegradedThreshold]

\* get_metrics(), lines 121-134, on agent object a.  status, error_count
\* and needs_healing are values computed at the call; "metrics" is
\* self.metrics itself, the dict the agent goes on updating, so the
\* returned dict holds a reference to it.  uptime_seconds and last_active
\* are clock readings and are left out.
get_metrics(a) ==
    [agent_id |-> agents[a].agent_id,
     agent_type |-> agents[a].agent_type,
     status |-> agents[a].status,
     error_count |-> agents[a].error_count,
     metrics |-> [ref |-> a],
     needs_healing |-> agents[a].error_count > DegradedThreshold]

\* Reading the dict a get_metrics() call returned: the nested "metrics"
\* entry is read through the reference, in the state of the read.
read_metrics_dict(d) ==
    [agent_id |-> d.agent_id,
     agent_type |-> d.agent_type,
     status |-> d.status,
     error_count |-> d.error_count,
     metrics |-> agents[d.metrics.ref].metrics,
     needs_healing |-> d.needs_healing]

\* Agents are created with the ids their callers give them.
DefaultIds == [a \in AgentObjs |-> a]

InitAgents ==
    /\ agents = [a \in AgentObjs |-> BaseAgent_init(DefaultIds[a], "generic")]
    /\ exec_calls = [c \in Callers |-> [st |-> "idle"]]
    /\ metrics_calls = [c \in Callers |-> [st |-> "idle"]]
    /\ new_calls = [c \in Callers |-> [st |-> "idle"]]

\* The callers whose execute() on agent a is suspended in process().
in_flight_on(a) ==
    {c \in Callers : exec_calls[c].st = "processing" /\ exec_calls[c].agent = a}

\* A caller invokes execute(task) on agent a; execute() runs to its await.
\* The call remembers which calls on the same agent were in flight then.
ExecuteStart(c, a, task) ==
    /\ exec_calls[c].st # "processing"
    /\ agents[a].metrics.total_requests < MaxExec
    /\ agents' = [agents EXCEPT ![a] = execute_enter(@)]
    /\ exec_calls' = [exec_calls EXCEPT
                        ![c] = [st |-> "processing", agent |-> a, task |-> task,
                                concurrent_with |-> in_flight_on(a)]]
    /\ UNCHANGED <<buggy_vars, gateway_vars, harden_vars, clock_vars,
                   metrics_calls, new_calls, graph_vars, heal_vars, cache_vars, vuln_vars, bench_vars, sec_vars>>

\* process() returned payload: execute() resumes in the try branch.
ProcessReturns(c, payload) ==
    /\ exec_calls[c].st = "processing"
    /\ LET a == exec_calls[c].agent
           ag == execute_on_return(agents[a])
       IN /\ agents' = [agents EXCEPT ![a] = ag]
          /\ exec_calls' = [exec_calls EXCEPT
                ![c] = [st |-> "done", agent |-> a, task |-> exec_calls[c].task,
                        concurrent_with |-> exec_calls[c].concurrent_with,
                        outcome |-> "returned",
                        result |-> result_success(ag, payload)]]
    /\ UNCHANGED <<buggy_vars, gateway_vars, harden_vars, clock_vars,
                   metrics_calls, new_calls, graph_vars, heal_vars, cache_vars, vuln_vars, bench_vars, sec_vars>>

\* process() raised err: execute() resumes in the except branch.
ProcessRaises(c, err) ==
    /\ exec_calls[c].st = "processing"
    /\ LET a == exec_calls[c].agent
           ag == execute_on_raise(agents[a], err, exec_calls[c].task)
       IN /\ agents' = [agents EXCEPT ![a] = ag]
          /\ exec_calls' = [exec_calls EXCEPT
                ![c] = [st |-> "done", agent |-> a, task |-> exec_calls[c].task,
                        concurrent_with |-> exec_calls[c].concurrent_with,
                        outcome |-> "raised", raised_error |-> err,
                        result |-> result_failure(ag, err)]]
    /\ UNCHANGED <<buggy_vars, gateway_vars, harden_vars, clock_vars,
                   metrics_calls, new_calls, graph_vars, heal_vars, cache_vars, vuln_vars, bench_vars, sec_vars>>

\* heal(diagnosis) on agent a.
HealCall(a, diagnosis) ==
    /\ Len(agents[a].healing_history) < MaxHeals
    /\ agents' = [agents EXCEPT ![a] = heal(@, diagnosis)]
    /\ UNCHANGED <<buggy_vars, gateway_vars, harden_vars, clock_vars,
                   exec_calls, metrics_calls, new_calls, graph_vars, heal_vars, cache_vars, vuln_vars, bench_vars, sec_vars>>

\* The agent under test in the single-agent specifications.
TheAgent == "a1"

\* A caller calls get_metrics() on agent a and keeps the dict; as_read is
\* what reading the dict gave at the moment of the call.
GetMetrics(c, a) ==
    /\ metrics_calls' = [metrics_calls EXCEPT
          ![c] = [st |-> "done", agent |-> a,
                  returned |-> get_metrics(a),
                  as_read |-> read_metrics_dict(get_metrics(a))]]
    /\ UNCHANGED <<buggy_vars, gateway_vars, harden_vars, clock_vars,
                   agents, exec_calls, new_calls,
                   graph_vars, heal_vars, cache_vars, vuln_vars, bench_vars, sec_vars>>

\* The agents called concurrently.
ConcAgents == {"a1", "a2"}

\* The arguments constructors are called with.
IdArgs == {NotGiven, Given(""), Given("test_agent"), Given("a1")}
TypeArgs == {NotGiven, Given("generic"), Given("healer")}
HexIds == {"0a1b2c3d", "ffffffff"}

\* A caller creates an agent and binds it to obj.
CreateAgent(c, obj, agent_id, agent_type, hex) ==
    /\ agents' = [agents EXCEPT ![obj] = BaseAgent_new(agent_id, agent_type, hex)]
    /\ new_calls' = [new_calls EXCEPT
          ![c] = [st |-> "done", obj |-> obj, agent_id |-> agent_id,
                  agent_type |-> agent_type, hex |-> hex,
                  created |-> BaseAgent_new(agent_id, agent_type, hex)]]
    /\ UNCHANGED <<buggy_vars, gateway_vars, harden_vars, clock_vars,
                   exec_calls, metrics_calls,
                   graph_vars, heal_vars, cache_vars, vuln_vars, bench_vars, sec_vars>>

\* one caller creating agents, one after the other
CreateNext ==
    \E obj \in ConcAgents, agent_id \in IdArgs,
       agent_type \in TypeArgs, hex \in HexIds :
        CreateAgent("c1", obj, agent_id, agent_type, hex)

\* execute() calls started on the agent whose metrics are read
MaxMetricsExec == 4

MetricsExecuteStart(c, a, task) ==
    /\ agents[a].metrics.total_requests < MaxMetricsExec
    /\ ExecuteStart(c, a, task)

\* execute(), heal() and get_metrics() calls on one agent
MetricsNext ==
    \/ \E c \in Callers, task \in Tasks : MetricsExecuteStart(c, TheAgent, task)
    \/ \E c \in Callers, p \in Payloads : ProcessReturns(c, p)
    \/ \E c \in Callers, e \in Errors : ProcessRaises(c, e)
    \/ HealCall(TheAgent, [reason |-> "preventive_healing"])
    \/ GetMetrics("c1", TheAgent)

\* execute() calls started on one agent when two agents are called at once
MaxConcExec == 3

\* execute(task) on one of several agents, each called a few times
ConcurrentExecuteStart(c, a, task) ==
    /\ agents[a].metrics.total_requests < MaxConcExec
    /\ ExecuteStart(c, a, task)

\* execute() calls of two callers on two agents, in any interleaving
ConcurrentNext ==
    \/ \E c \in Callers, a \in ConcAgents, task \in Tasks :
          ConcurrentExecuteStart(c, a, task)
    \/ \E c \in Callers, p \in Payloads : ProcessReturns(c, p)
    \/ \E c \in Callers, e \in Errors : ProcessRaises(c, e)

AgentNext ==
    \/ \E c \in Callers, task \in Tasks : ExecuteStart(c, TheAgent, task)
    \/ \E c \in Callers, p \in Payloads : ProcessReturns(c, p)
    \/ \E c \in Callers, e \in Errors : ProcessRaises(c, e)
    \/ HealCall(TheAgent, [reason |-> "preventive_healing"])

\* ---------------------------------------------------- SimpleHealingGraph
\* graph runs on the same agents (caps the number of run() calls)
MaxRuns == 2

\* The texts a task handler raises during a graph run.
GraphErrors == {"E1", "E2"}

\* The agent lists a run is given: every list of distinct agent objects.
AgentLists ==
    {l \in UNION {[1..n -> AgentObjs] : n \in 0..Cardinality(AgentObjs)} :
        \A i, j \in DOMAIN l : i # j => l[i] # l[j]}

\* A dict as a function on its keys.
EmptyDict == [k \in {} |-> 0]
dict_set(d, k, v) == [x \in DOMAIN d \cup {k} |-> IF x = k THEN v ELSE d[x]]

InitGraph ==
    graph = [step |-> "idle", runs |-> 0]

\* run(): the initial SystemState, and process_tasks up to its loop
GraphRun(agent_list, task) ==
    /\ graph.step \in {"idle", "end"}
    /\ graph.runs < MaxRuns
    /\ graph' = [step |-> "start", runs |-> graph.runs + 1,
                 agents |-> agent_list, task |-> task,
                 results |-> EmptyDict, errors |-> EmptyDict,
                 i |-> 1, awaiting |-> FALSE,
                 faulted |-> {}]
    /\ UNCHANGED <<buggy_vars, gateway_vars, harden_vars, clock_vars,
                   agent_vars, heal_vars, cache_vars, vuln_vars, bench_vars, sec_vars>>

\* process_tasks, `result = await agent.execute(task)`: execute() of the
\* i-th agent runs to its await of process().
GraphDispatch ==
    /\ graph.step = "start"
    /\ ~graph.awaiting
    /\ graph.i <= Len(graph.agents)
    /\ graph.agents[graph.i] \in AgentObjs
    /\ agents' = [agents EXCEPT ![graph.agents[graph.i]] = execute_enter(@)]
    /\ graph' = [graph EXCEPT !.awaiting = TRUE]
    /\ UNCHANGED <<buggy_vars, gateway_vars, harden_vars, clock_vars,
                   exec_calls, metrics_calls, new_calls, heal_vars, cache_vars, vuln_vars, bench_vars, sec_vars>>

\* process_tasks lines 41-46: what the try/except does with the outcome of
\* agent.execute(task)
process_tasks_store(g, agent_id, res) ==
    IF res.raised
    THEN [g EXCEPT !.errors = dict_set(@, agent_id, res.error)]
    ELSE [g EXCEPT !.results = dict_set(@, agent_id, res)]

\* process() of the i-th agent returned: execute() returns its result and
\* process_tasks stores it and moves to the next agent.
GraphProcessReturns(payload) ==
    /\ graph.step = "start"
    /\ graph.awaiting
    /\ graph.agents[graph.i] \in AgentObjs
    /\ LET a == graph.agents[graph.i]
           ag == execute_on_return(agents[a])
           g == process_tasks_store(graph, ag.agent_id,
                                    result_success(ag, payload))
       IN /\ agents' = [agents EXCEPT ![a] = ag]
          /\ graph' = [g EXCEPT !.i = @ + 1, !.awaiting = FALSE]
    /\ UNCHANGED <<buggy_vars, gateway_vars, harden_vars, clock_vars,
                   exec_calls, metrics_calls, new_calls, heal_vars, cache_vars, vuln_vars, bench_vars, sec_vars>>

\* process() of the i-th agent raised: execute() catches it.
GraphProcessRaises(err) ==
    /\ graph.step = "start"
    /\ graph.awaiting
    /\ graph.agents[graph.i] \in AgentObjs
    /\ LET a == graph.agents[graph.i]
           ag == execute_on_raise(agents[a], err, graph.task)
           g == process_tasks_store(graph, ag.agent_id,
                                    result_failure(ag, err))
       IN /\ agents' = [agents EXCEPT ![a] = ag]
          /\ graph' = [g EXCEPT !.i = @ + 1, !.awaiting = FALSE,
                                !.faulted = @ \cup {a}]
    /\ UNCHANGED <<buggy_vars, gateway_vars, harden_vars, clock_vars,
                   exec_calls, metrics_calls, new_calls, heal_vars, cache_vars, vuln_vars, bench_vars, sec_vars>>

\* process_tasks returning as soon as one execute() has completed
GraphProcessed_partial ==
    /\ graph.step = "start"
    /\ ~graph.awaiting
    /\ graph.i > 1
    /\ graph' = [graph EXCEPT !.step = "processed"]
    /\ UNCHANGED <<buggy_vars, gateway_vars, harden_vars, clock_vars,
                   agent_vars, heal_vars, cache_vars, vuln_vars, bench_vars, sec_vars>>

\* process_tasks returns {"results", "errors", "step": "processed"}
GraphProcessed ==
    /\ graph.step = "start"
    /\ ~graph.awaiting
    /\ graph.i > Len(graph.agents)
    /\ graph' = [graph EXCEPT !.step = "processed"]
    /\ UNCHANGED <<buggy_vars, gateway_vars, harden_vars, clock_vars,
                   agent_vars, heal_vars, cache_vars, vuln_vars, bench_vars, sec_vars>>

\* route(state): "heal" if state.get("errors") else END
route(g) == IF DOMAIN g.errors # {} THEN "heal" ELSE "end"

\* the conditional edge out of the process node
GraphRoute ==
    /\ graph.step = "processed"
    /\ graph' = [graph EXCEPT !.step = route(graph)]
    /\ UNCHANGED <<buggy_vars, gateway_vars, harden_vars, clock_vars,
                   agent_vars, heal_vars, cache_vars, vuln_vars, bench_vars, sec_vars>>

\* DataProcessorAgent(agent_id=None), specialized_agents.py lines 11-12:
\* the id handed to BaseAgent is the argument or "data_processor"
DataProcessorAgent_new(agent_id, hex) ==
    BaseAgent_new(Given(arg_or(agent_id, "data_processor")),
                  Given("data_processor"), hex)

\* The ids given to the data processors.
ProcessorIds == {NotGiven, Given("dp1")}

\* Before the run, the caller of run() creates a DataProcessorAgent and
\* binds it to obj.
CreateDataProcessor(obj, agent_id, hex) ==
    /\ graph.step = "idle"
    /\ agents' = [agents EXCEPT ![obj] = DataProcessorAgent_new(agent_id, hex)]
    /\ UNCHANGED <<buggy_vars, gateway_vars, harden_vars, clock_vars,
                   exec_calls, metrics_calls, new_calls,
                   graph_vars, heal_vars, cache_vars, vuln_vars, bench_vars, sec_vars>>

GraphNext ==
    \/ \E l \in AgentLists, t \in Tasks : GraphRun(l, t)
    \/ GraphDispatch
    \/ \E p \in Payloads : GraphProcessReturns(p)
    \/ \E e \in GraphErrors : GraphProcessRaises(e)
    \/ GraphProcessed
    \/ GraphRoute

\* ------------------------------------------------------ healing pipeline
\* (the Heal node of the graph follows the pipeline it calls)
\* heal_agent() calls started on one healing agent
MaxHealOps == 2

\* The two healing agents with the diagnose/plan/execute pipeline.
HealerKinds == {"HealingAgent", "LLMHealingAgent"}

\* What the external generate() call answers: text that is a JSON document,
\* text that is not, or an exception.
Responses == {"{\"root_cause\": \"db\"}", "restart the agent"}
LLMErrors == {"Qwen API error"}
GenOutcomes ==
    {[exc |-> TRUE, error |-> e] : e \in LLMErrors}
        \cup {[exc |-> FALSE, value |-> r] : r \in Responses}

\* The heal_agent tasks: a target agent id and an issue text.
HealTasks ==
    {[target_agent |-> t, issue |-> i] : t \in {"a1", "a2"}, i \in {"E1", "E2"}}

\* The heal_agent tasks of the runs in which the clock is followed.
ClockTasks == {t \in HealTasks : t.target_agent = "a1" /\ t.issue = "E1"}

\* json.loads that takes every text for a document
json_loads_lenient(response) ==
    [exc |-> FALSE, value |-> [json |-> response]]

\* json.loads(response) on the responses above: a text enclosed in braces
\* is a document, any other text raises.
json_loads(response) ==
    IF /\ Len(response) >= 2
       /\ SubSeq(response, 1, 1) = "{"
       /\ SubSeq(response, Len(response), Len(response)) = "}"
    THEN [exc |-> FALSE, value |-> [json |-> response]]
    ELSE [exc |-> TRUE, error |-> "JSONDecodeError"]

\* The outcome of a call: the value it returns or the exception it raises.
Returns(v) == [exc |-> FALSE, value |-> v]
RaisesExc(e) == [exc |-> TRUE, error |-> e]

\* the diagnose stage without its outer try/except: a failure of
\* generate() leaves the stage as an exception
ai_diagnose_unguarded(kind, outcome) ==
    IF outcome.exc
    THEN RaisesExc(outcome.error)
    ELSE LET parsed == json_loads(outcome.value)
         IN IF parsed.exc
            THEN Returns([ai_analysis |-> outcome.value, parsed |-> FALSE])
            ELSE Returns(parsed.value)

\* HealingAgent._ai_diagnose (healing_agent.py 118-141) and
\* LLMHealingAgent._llm_diagnose (healing_agent_llm.py 113-132), given the
\* outcome of the awaited generate()
ai_diagnose(kind, outcome) ==
    IF outcome.exc
    THEN Returns(
           IF kind = "HealingAgent"
           THEN [error |-> "AI diagnosis failed: " \o outcome.error,
                 fallback_diagnosis |->
                    [root_cause |-> "Unknown - requires manual investigation",
                     severity |-> "High",
                     immediate_actions |-> <<"Check logs", "Restart service",
                                             "Verify dependencies">>]]
           ELSE [error |-> "LLM diagnosis failed: " \o outcome.error,
                 fallback_diagnosis |->
                    [root_cause |-> "Unknown - requires investigation",
                     severity |-> "High"]])
    ELSE LET parsed == json_loads(outcome.value)
         IN IF parsed.exc
            THEN Returns(IF kind = "HealingAgent"
                         THEN [ai_analysis |-> outcome.value, parsed |-> FALSE]
                         ELSE [analysis |-> outcome.value, parsed |-> FALSE])
            ELSE Returns(parsed.value)

\* _generate_healing_plan (healing_agent.py 166-186, healing_agent_llm.py
\* 148-167), given the outcome of the awaited generate()
generate_healing_plan(kind, outcome) ==
    IF outcome.exc
    THEN Returns(
           IF kind = "HealingAgent"
           THEN [fallback_plan |->
                    [steps |-> <<"Restart the agent", "Clear cache",
                                 "Verify configuration">>,
                     rollback |-> "Restore from last known good state"],
                 error |-> outcome.error]
           ELSE [fallback_plan |->
                    [steps |-> <<"Restart agent", "Verify configuration",
                                 "Check dependencies">>,
                     error |-> outcome.error]])
    ELSE Returns([plan |-> outcome.value,
                  generated_by |-> IF kind = "HealingAgent" THEN "qwen_ai"
                                   ELSE "LLMClient"])

\* _execute_healing (healing_agent.py 196-206, healing_agent_llm.py 173-180)
execute_healing(kind, target_agent) ==
    IF kind = "HealingAgent"
    THEN [executed |-> TRUE, target_agent |-> target_agent,
          status |-> "healing_applied", simulation |-> TRUE]
    ELSE [executed |-> TRUE, target_agent |-> target_agent,
          plan_applied |-> TRUE, simulation |-> TRUE]

\* f"heal_{int(time.time())}" for the clock readings reached here
operation_id(seconds) ==
    "heal_" \o SubSeq("0123456789", seconds + 1, seconds + 1)

\* the whole seconds that are sure to pass during the sleep of
\* _execute_healing: sleep(1) in healing_agent.py line 196, sleep(0.5) in
\* healing_agent_llm.py line 173
sleep_seconds(kind) == IF kind = "HealingAgent" THEN 1 ELSE 0

\* the operation record of heal_agent (healing_agent.py 77-86)
healing_operation(task, diagnosis, healing_plan, healing_result) ==
    [operation_id |-> operation_id(clock),
     target_agent |-> task.target_agent,
     issue |-> task.issue,
     diagnosis |-> diagnosis,
     healing_plan |-> healing_plan,
     result |-> healing_result]

\* a log that puts the newest operation first
record_operation_newest_first(log, entry) == <<entry>> \o log

\* self.healing_operations.append(operation), healing_agent.py line 88
record_operation(healing_operations, operation) ==
    Append(healing_operations, operation)

InitHeal(kinds) ==
    /\ healer \in {[kind |-> k, healing_operations |-> <<>>] : k \in kinds}
    /\ heal_calls = [c \in Callers |-> [st |-> "idle"]]

HealInFlight == {c \in Callers : heal_calls[c].st \in {"diagnose", "plan", "execute"}}

\* heal_agent(task) up to the await of generate() in the diagnose stage
HealAgentStart(c, task) ==
    /\ c \notin HealInFlight
    /\ Len(healer.healing_operations) + Cardinality(HealInFlight) < MaxHealOps
    /\ heal_calls' = [heal_calls EXCEPT ![c] =
          [st |-> "diagnose", task |-> task,
           generate_calls |-> <<[stage |-> "diagnose", issue |-> task.issue]>>]]
    /\ UNCHANGED <<buggy_vars, gateway_vars, harden_vars, clock_vars,
                   healer, agent_vars, graph_vars, cache_vars, vuln_vars, bench_vars, sec_vars>>

\* an exception leaves heal_agent: the call ends without a result
heal_propagates(call, stage, error) ==
    [st |-> "done", task |-> call.task,
     generate_calls |-> call.generate_calls,
     result |-> [raised |-> TRUE, stage |-> stage, error |-> error]]

\* the prompt of _generate_healing_plan: the diagnosis and the target
plan_call(diagnosis, target_agent) ==
    [stage |-> "plan", diagnosis |-> diagnosis, target_agent |-> target_agent]

\* a heal_agent that goes straight to the execute stage with the fallback
\* plan when the diagnose stage fell back
DiagnoseDone_fallback_skips_plan(caller, gen) ==
    /\ heal_calls[caller].st = "diagnose"
    /\ LET d == ai_diagnose(healer.kind, gen)
       IN heal_calls' = [heal_calls EXCEPT ![caller] =
            IF gen.exc
            THEN [st |-> "execute", task |-> @.task,
                  generate_calls |-> @.generate_calls,
                  gen1 |-> gen, gen2 |-> gen,
                  diagnosis |-> d.value,
                  healing_plan |-> generate_healing_plan(healer.kind, gen).value,
                  slept_from |-> clock]
            ELSE [st |-> "plan", task |-> @.task,
                  generate_calls |-> Append(@.generate_calls,
                      plan_call(d.value, @.task.target_agent)),
                  gen1 |-> gen, diagnosis |-> d.value]]
    /\ UNCHANGED <<buggy_vars, gateway_vars, harden_vars, clock_vars,
                   healer, agent_vars, graph_vars, cache_vars, vuln_vars, bench_vars, sec_vars>>

\* generate() of the diagnose stage answers; heal_agent goes on to the
\* await of generate() in the plan stage
DiagnoseDone(c, outcome) ==
    /\ heal_calls[c].st = "diagnose"
    /\ LET d == ai_diagnose(healer.kind, outcome)
       IN heal_calls' = [heal_calls EXCEPT ![c] =
            IF d.exc THEN heal_propagates(@, "diagnose", d.error)
            ELSE [st |-> "plan", task |-> @.task,
                  generate_calls |-> Append(@.generate_calls,
                      plan_call(d.value, @.task.target_agent)),
                  gen1 |-> outcome, diagnosis |-> d.value]]
    /\ UNCHANGED <<buggy_vars, gateway_vars, harden_vars, clock_vars,
                   healer, agent_vars, graph_vars, cache_vars, vuln_vars, bench_vars, sec_vars>>

\* generate() of the plan stage answers; heal_agent goes on to the sleep
\* of _execute_healing
PlanDone(c, outcome) ==
    /\ heal_calls[c].st = "plan"
    /\ LET p == generate_healing_plan(healer.kind, outcome)
       IN heal_calls' = [heal_calls EXCEPT ![c] =
            IF p.exc THEN heal_propagates(@, "plan", p.error)
            ELSE [st |-> "execute", task |-> @.task,
                  generate_calls |-> @.generate_calls,
                  gen1 |-> @.gen1, gen2 |-> outcome,
                  diagnosis |-> @.diagnosis, healing_plan |-> p.value,
                  slept_from |-> clock]]
    /\ UNCHANGED <<buggy_vars, gateway_vars, harden_vars, clock_vars,
                   healer, agent_vars, graph_vars, cache_vars, vuln_vars, bench_vars, sec_vars>>

\* an execute stage that calls heal() on the target agent
ExecuteHealingDone_heals_target(caller) ==
    /\ heal_calls[caller].st = "execute"
    /\ LET call == heal_calls[caller]
           op == healing_operation(call.task, call.diagnosis, call.healing_plan,
                    execute_healing(healer.kind, call.task.target_agent))
       IN /\ healer' = [healer EXCEPT !.healing_operations = Append(@, op)]
          /\ heal_calls' = [heal_calls EXCEPT ![caller] =
                [st |-> "done", task |-> call.task,
                 generate_calls |-> call.generate_calls,
                 gen1 |-> call.gen1, gen2 |-> call.gen2,
                 result |-> [raised |-> FALSE, success |-> TRUE,
                             operation |-> op]]]
          /\ agents' = [agents EXCEPT ![call.task.target_agent] =
                            heal(@, call.healing_plan)]
    /\ UNCHANGED <<buggy_vars, gateway_vars, harden_vars, clock_vars,
                   exec_calls, metrics_calls, new_calls,
                   graph_vars, cache_vars, vuln_vars, bench_vars, sec_vars>>

\* the sleep ends: the operation is recorded and heal_agent returns
ExecuteHealingDone(c) ==
    /\ heal_calls[c].st = "execute"
    /\ LET call == heal_calls[c]
           op == healing_operation(call.task, call.diagnosis, call.healing_plan,
                    execute_healing(healer.kind, call.task.target_agent))
       IN /\ healer' = [healer EXCEPT
                !.healing_operations = record_operation(@, op)]
          /\ heal_calls' = [heal_calls EXCEPT ![c] =
                [st |-> "done", task |-> call.task,
                 generate_calls |-> call.generate_calls,
                 gen1 |-> call.gen1, gen2 |-> call.gen2,
                 result |-> [raised |-> FALSE, success |-> TRUE,
                             operation |-> op]]]
    /\ UNCHANGED <<buggy_vars, gateway_vars, harden_vars, clock_vars,
                   agent_vars, graph_vars, cache_vars, vuln_vars, bench_vars, sec_vars>>

\* seconds of wall-clock time followed in one run
MaxClock == 2

\* the wall clock passes into the next second
Tick ==
    /\ clock < MaxClock
    /\ clock' = clock + 1
    /\ UNCHANGED <<heal_vars, agent_vars, graph_vars, cache_vars, vuln_vars,
                   bench_vars, sec_vars, buggy_vars, gateway_vars, harden_vars>>

\* the sleep of _execute_healing ends no sooner than it lasts
SleepEnds(c) ==
    /\ heal_calls[c].st = "execute"
    /\ clock >= heal_calls[c].slept_from + sleep_seconds(healer.kind)
    /\ ExecuteHealingDone(c)

\* heal_agent calls of two callers on one healing agent as time passes
HealClockNext ==
    \/ \E c \in Callers, t \in ClockTasks : HealAgentStart(c, t)
    \/ \E c \in Callers, o \in GenOutcomes : DiagnoseDone(c, o)
    \/ \E c \in Callers, o \in GenOutcomes : PlanDone(c, o)
    \/ \E c \in Callers : SleepEnds(c)
    \/ Tick

HealNext ==
    \/ \E c \in Callers, t \in HealTasks : HealAgentStart(c, t)
    \/ \E c \in Callers, o \in GenOutcomes : DiagnoseDone(c, o)
    \/ \E c \in Callers, o \in GenOutcomes : PlanDone(c, o)
    \/ \E c \in Callers : ExecuteHealingDone(c)

\* ----------------------------------------------- the Heal node of a run
\* Agent objects whose execute() lets an exception of the task handler out
\* (a class that overrides execute() without the guard of
\* BaseAgent.execute): the agents the except branch of process_tasks,
\* lines 45-46, is written for.  Their agent_id is their name.
UnguardedAgents == {"x1", "x2"}

\* The agent lists of runs that can reach the Heal node.
MixedLists ==
    {l \in UNION {[1..n -> {"a1"} \cup UnguardedAgents] : n \in 0..3} :
        \A i, j \in DOMAIN l : i # j => l[i] # l[j]}

\* graph runs that can reach the Heal node
MaxHealRuns == 1

\* The exceptions healing_agent.process() may leave with.
HealErrors == {"H1"}

\* process_tasks, `result = await agent.execute(task)`, on an unguarded
\* agent
GraphDispatchUnguarded ==
    /\ graph.step = "start"
    /\ ~graph.awaiting
    /\ graph.i <= Len(graph.agents)
    /\ graph.agents[graph.i] \in UnguardedAgents
    /\ graph' = [graph EXCEPT !.awaiting = TRUE]
    /\ UNCHANGED <<buggy_vars, gateway_vars, harden_vars, clock_vars,
                   agent_vars, heal_vars, cache_vars, vuln_vars, bench_vars, sec_vars>>

\* execute() of the unguarded agent returned a result
GraphExecuteReturns(payload) ==
    /\ graph.step = "start"
    /\ graph.awaiting
    /\ graph.agents[graph.i] \in UnguardedAgents
    /\ LET a == graph.agents[graph.i]
           g == process_tasks_store(graph, a,
                   [raised |-> FALSE, success |-> TRUE, result |-> payload,
                    agent_id |-> a])
       IN graph' = [g EXCEPT !.i = @ + 1, !.awaiting = FALSE]
    /\ UNCHANGED <<buggy_vars, gateway_vars, harden_vars, clock_vars,
                   agent_vars, heal_vars, cache_vars, vuln_vars, bench_vars, sec_vars>>

\* execute() of the unguarded agent raised err
GraphExecuteRaises(err) ==
    /\ graph.step = "start"
    /\ graph.awaiting
    /\ graph.agents[graph.i] \in UnguardedAgents
    /\ LET a == graph.agents[graph.i]
           g == process_tasks_store(graph, a, [raised |-> TRUE, error |-> err])
       IN graph' = [g EXCEPT !.i = @ + 1, !.awaiting = FALSE,
                             !.faulted = @ \cup {a}]
    /\ UNCHANGED <<buggy_vars, gateway_vars, harden_vars, clock_vars,
                   agent_vars, heal_vars, cache_vars, vuln_vars, bench_vars, sec_vars>>

\* `for agent_id in errors`: the keys in insertion order, which is the
\* order of the agents in the list
error_keys(g) ==
    LET in_errors(a) == a \in DOMAIN g.errors
    IN SelectSeq(g.agents, in_errors)

\* heal_agents lines 57-61: the task of one healing attempt
healing_task(g, agent_id) ==
    [type |-> "heal_agent", target_agent |-> agent_id,
     issue |-> g.errors[agent_id]]

\* heal_agents, lines 52-55: the Heal node is entered.  attempts is the
\* history of the tasks healing_agent.process() was called with.
GraphHeal ==
    /\ graph.step = "heal"
    /\ graph' = [step |-> "healing", runs |-> graph.runs,
                 agents |-> graph.agents, task |-> graph.task,
                 results |-> graph.results, errors |-> graph.errors,
                 i |-> graph.i, awaiting |-> FALSE, faulted |-> graph.faulted,
                 pending |-> error_keys(graph),
                 healing_results |-> EmptyDict,
                 attempts |-> <<>>, swallowed |-> {}]
    /\ UNCHANGED <<buggy_vars, gateway_vars, harden_vars, clock_vars,
                   agent_vars, heal_vars, cache_vars, vuln_vars, bench_vars, sec_vars>>

\* heal_agents, line 63: `await healing_agent.process(healing_task)` for
\* the next key
GraphHealInvoke ==
    /\ graph.step = "healing"
    /\ ~graph.awaiting
    /\ graph.pending # <<>>
    /\ graph' = [graph EXCEPT
          !.awaiting = TRUE,
          !.attempts = Append(@, healing_task(graph, Head(graph.pending)))]
    /\ UNCHANGED <<buggy_vars, gateway_vars, harden_vars, clock_vars,
                   agent_vars, heal_vars, cache_vars, vuln_vars, bench_vars, sec_vars>>

\* heal_agents with `except: pass` replaced by `except: break`
heal_attempt_failed_aborts(g, agent_id) ==
    [g EXCEPT !.pending = <<>>, !.awaiting = FALSE,
              !.swallowed = @ \cup {agent_id}]

\* heal_agents, lines 65-66: the attempt raised; the loop goes on
heal_attempt_failed(g, agent_id) ==
    [g EXCEPT !.pending = Tail(@), !.awaiting = FALSE,
              !.swallowed = @ \cup {agent_id}]

\* heal_agents, line 64: the attempt returned result
heal_attempt_returned(g, agent_id, result) ==
    [g EXCEPT !.pending = Tail(@), !.awaiting = FALSE,
              !.healing_results = dict_set(@, agent_id, result)]

\* healing_agent.process(task) returned: HealingAgent.process hands the
\* task to heal_agent, which ran its three stages with the generate()
\* outcomes gen1 and gen2 and recorded the operation
GraphHealReturns(gen1, gen2) ==
    /\ graph.step = "healing"
    /\ graph.awaiting
    /\ LET agent_id == Head(graph.pending)
           task == healing_task(graph, agent_id)
           op == healing_operation(task,
                    ai_diagnose(healer.kind, gen1).value,
                    generate_healing_plan(healer.kind, gen2).value,
                    execute_healing(healer.kind, agent_id))
       IN /\ healer' = [healer EXCEPT !.healing_operations = Append(@, op)]
          /\ graph' = heal_attempt_returned(graph, agent_id,
                         [success |-> TRUE, operation |-> op])
    /\ UNCHANGED <<buggy_vars, gateway_vars, harden_vars, clock_vars,
                   heal_calls, agent_vars, cache_vars, vuln_vars, bench_vars, sec_vars>>

\* healing_agent.process(task) raised
GraphHealRaises(err) ==
    /\ graph.step = "healing"
    /\ graph.awaiting
    /\ graph' = heal_attempt_failed(graph, Head(graph.pending))
    /\ UNCHANGED <<buggy_vars, gateway_vars, harden_vars, clock_vars,
                   agent_vars, heal_vars, cache_vars, vuln_vars, bench_vars, sec_vars>>

\* a Heal node whose outgoing edge leads back to the process node
GraphHealed_redispatch ==
    /\ graph.step = "healing"
    /\ ~graph.awaiting
    /\ graph.pending = <<>>
    /\ graph' = [step |-> "start", runs |-> graph.runs,
                 agents |-> graph.agents, task |-> graph.task,
                 results |-> EmptyDict, errors |-> EmptyDict,
                 i |-> 1, awaiting |-> FALSE, faulted |-> {}]
    /\ UNCHANGED <<buggy_vars, gateway_vars, harden_vars, clock_vars,
                   agent_vars, heal_vars, cache_vars, vuln_vars, bench_vars, sec_vars>>

\* heal_agents returns {"healing_results", "step": "healed"}; the edge
\* from heal leads to END
GraphHealed ==
    /\ graph.step = "healing"
    /\ ~graph.awaiting
    /\ graph.pending = <<>>
    /\ graph' = [graph EXCEPT !.step = "end"]
    /\ UNCHANGED <<buggy_vars, gateway_vars, harden_vars, clock_vars,
                   agent_vars, heal_vars, cache_vars, vuln_vars, bench_vars, sec_vars>>

\* the steps of a run once run() was called
GraphProgress ==
    \/ GraphDispatch
    \/ \E p \in Payloads : GraphProcessReturns(p)
    \/ \E e \in GraphErrors : GraphProcessRaises(e)
    \/ GraphDispatchUnguarded
    \/ \E p \in Payloads : GraphExecuteReturns(p)
    \/ \E e \in Errors : GraphExecuteRaises(e)
    \/ GraphProcessed
    \/ GraphRoute
    \/ GraphHeal
    \/ GraphHealInvoke
    \/ \E gen \in GenOutcomes : GraphHealReturns(gen, gen)
    \/ \E e \in HealErrors : GraphHealRaises(e)
    \/ GraphHealed

\* run() on a list that may hold unguarded agents
GraphRunMixed(agent_list, task) ==
    /\ graph.runs < MaxHealRuns
    /\ GraphRun(agent_list, task)

GraphHealNext ==
    \/ \E l \in MixedLists, t \in Tasks : GraphRunMixed(l, t)
    \/ GraphProgress

\* ------------------------------------------------------------- strings
\* Python strings are TLA+ strings; s[i] is SubSeq(s, i, i).
UpperChars == "ABCDEFGHIJKLMNOPQRSTUVWXYZ"
LowerChars == "abcdefghijklmnopqrstuvwxyz"

lower_table ==
    [ch \in {SubSeq(UpperChars, i, i) : i \in 1..Len(UpperChars)} |->
        LET i == CHOOSE k \in 1..Len(UpperChars) : SubSeq(UpperChars, k, k) = ch
        IN SubSeq(LowerChars, i, i)]

char_lower(ch) ==
    IF ch \in DOMAIN lower_table THEN lower_table[ch] ELSE ch

\* str.lower()
RECURSIVE lower(_)
lower(s) ==
    IF Len(s) = 0 THEN ""
    ELSE char_lower(SubSeq(s, 1, 1)) \o lower(SubSeq(s, 2, Len(s)))

\* `sub in s`
contains(s, sub) ==
    \E i \in 1..(Len(s) - Len(sub) + 1) : SubSeq(s, i, i + Len(sub) - 1) = sub

\* "_".join(parts)
RECURSIVE join(_)
join(parts) ==
    IF Len(parts) = 0 THEN ""
    ELSE IF Len(parts) = 1 THEN parts[1]
    ELSE parts[1] \o "_" \o join(Tail(parts))

\* A regular expression is a set of alternatives; an alternative is a
\* sequence of elements: a literal text, one character of a class, or one
\* or more characters of a class.
Lit(text) == [t |-> "lit", s |-> text]
Cls(chars) == [t |-> "cls", cs |-> chars]
Plus(chars) == [t |-> "plus", cs |-> chars]
Digits == {"0", "1", "2", "3", "4", "5", "6", "7", "8", "9"}
Whitespace == {" ", "\t", "\n", "\r"}

\* whether elements k.. of alternative alt match s from position i on
RECURSIVE match_at(_, _, _, _)
match_at(alt, k, s, i) ==
    IF k > Len(alt) THEN TRUE
    ELSE LET e == alt[k] IN
         CASE e.t = "lit" ->
                /\ i + Len(e.s) - 1 <= Len(s)
                /\ SubSeq(s, i, i + Len(e.s) - 1) = e.s
                /\ match_at(alt, k + 1, s, i + Len(e.s))
           [] e.t = "cls" ->
                /\ i <= Len(s)
                /\ SubSeq(s, i, i) \in e.cs
                /\ match_at(alt, k + 1, s, i + 1)
           [] e.t = "plus" ->
                \E n \in 1..(Len(s) - i + 1) :
                    /\ \A j \in i..(i + n - 1) : SubSeq(s, j, j) \in e.cs
                    /\ match_at(alt, k + 1, s, i + n)

\* the alternative with its literals in lower case
alt_lower(alt) ==
    [k \in DOMAIN alt |->
        IF alt[k].t = "lit" THEN Lit(lower(alt[k].s)) ELSE alt[k]]

\* re.search(regex, s) and re.search(regex, s, re.IGNORECASE): under
\* IGNORECASE the text and the literals are compared in lower case
re_search(regex, s, ignorecase) ==
    \E text \in {IF ignorecase THEN lower(s) ELSE s} :
        \E alt \in {IF ignorecase THEN alt_lower(a) ELSE a : a \in regex} :
            \E i \in 1..(Len(text) + 1) : match_at(alt, 1, text, i)

\* ------------------------------------------------------------- fix cache
\* analyze_and_fix_bug() calls started on one CodeHealingAgent
MaxFixRequests == 3

\* The (error, input) pairs of the analyze_bug tasks.
BugRequests ==
    {[error |-> "Division by zero", input |-> "special_case_1"],
     [error |-> "division by ZERO", input |-> "special_case_22"],
     [error |-> "JSON parsing error", input |-> "malformed_json"],
     [error |-> "failed", input |-> "abc"]}

\* _extract_bug_pattern, lines 239-258
extract_bug_pattern(error_message, input_data) ==
    LET msg == lower(error_message)
        p1 == IF contains(msg, "division") /\ contains(msg, "zero")
              THEN <<"division_by_zero">> ELSE <<>>
        p2 == IF contains(msg, "json") THEN <<"json_parsing">> ELSE <<>>
        p3 == IF contains(msg, "memory") THEN <<"memory_overflow">> ELSE <<>>
        p4 == IF re_search({<<Lit("special_case_"), Plus(Digits)>>},
                           input_data, FALSE)
              THEN <<"special_case_number">>
              ELSE IF re_search({<<Lit("malformed_json")>>}, input_data, FALSE)
              THEN <<"malformed_json">>
              ELSE IF re_search({<<Lit("large_dataset_"), Plus(Digits)>>},
                                input_data, FALSE)
              THEN <<"large_dataset">>
              ELSE <<>>
        patterns == p1 \o p2 \o p3 \o p4
    IN IF Len(patterns) > 0 THEN join(patterns) ELSE "unknown_bug"

\* lines 55-62: the answer on a cache hit
existing_fix_result(code_fixes, bug_pattern) ==
    [success |-> TRUE, action |-> "apply_existing_fix",
     pattern |-> bug_pattern, fix |-> code_fixes[bug_pattern]]

\* lines 90-94: the parsed response, or the raw response wrapped
parse_analysis(response) ==
    LET parsed == json_loads(response)
    IN IF parsed.exc THEN [raw_response |-> response] ELSE parsed.value

\* lines 97-103: the fix stored under the pattern
new_fix(bug_pattern, analysis, req) ==
    [analysis |-> analysis, pattern |-> bug_pattern,
     input_example |-> req.input, error |-> req.error]

\* lines 112-118 and 120-124: the answers after generate()
generated_fix_result(bug_pattern, analysis) ==
    [success |-> TRUE, action |-> "generated_new_fix",
     pattern |-> bug_pattern, analysis |-> analysis]
\* an except branch that reports the failed analysis as done
failed_fix_result_as_success(e) ==
    [success |-> TRUE, error |-> "Bug analysis failed: " \o e]

failed_fix_result(error) ==
    [success |-> FALSE, error |-> "Bug analysis failed: " \o error]

\* a lookup that tests the wrong dict and so never finds a fix
cache_hit_never(code_fixes, bug_pattern) == bug_pattern \in DOMAIN EmptyDict

\* lines 55-62: whether the lookup finds a fix
cache_hit(code_fixes, bug_pattern) == bug_pattern \in DOMAIN code_fixes

InitCache ==
    /\ coder = [code_fixes |-> EmptyDict, bug_patterns |-> EmptyDict]
    /\ fix_calls = [c \in Callers |-> [st |-> "idle"]]
    /\ cache_log = [requests |-> 0, generate |-> <<>>, stored |-> <<>>]

\* analyze_and_fix_bug(task) up to its return on a hit, or to the await of
\* generate() on a miss
AnalyzeStart(c, req) ==
    /\ fix_calls[c].st # "generating"
    /\ cache_log.requests < MaxFixRequests
    /\ LET bug_pattern == extract_bug_pattern(req.error, req.input)
       IN IF cache_hit(coder.code_fixes, bug_pattern)
          THEN /\ fix_calls' = [fix_calls EXCEPT ![c] =
                    [st |-> "done", req |-> req, pattern |-> bug_pattern,
                     generate_calls |-> 0,
                     result |-> existing_fix_result(coder.code_fixes,
                                                    bug_pattern)]]
               /\ cache_log' = [cache_log EXCEPT !.requests = @ + 1]
          ELSE /\ fix_calls' = [fix_calls EXCEPT ![c] =
                    [st |-> "generating", req |-> req, pattern |-> bug_pattern]]
               /\ cache_log' = [cache_log EXCEPT
                                   !.requests = @ + 1,
                                   !.generate = Append(@, bug_pattern)]
    /\ UNCHANGED <<buggy_vars, gateway_vars, harden_vars, clock_vars,
                   coder, agent_vars, graph_vars, heal_vars, vuln_vars, bench_vars, sec_vars>>

\* generate() answers: the fix is stored and returned, or the failure is
\* reported (lines 89-124)
AnalyzeGenerated(c, outcome) ==
    /\ fix_calls[c].st = "generating"
    /\ LET call == fix_calls[c]
           analysis == parse_analysis(outcome.value)
           fix == new_fix(call.pattern, analysis, call.req)
       IN IF outcome.exc
          THEN /\ fix_calls' = [fix_calls EXCEPT ![c] =
                    [st |-> "done", req |-> call.req, pattern |-> call.pattern,
                     generate_calls |-> 1,
                     result |-> failed_fix_result(outcome.error)]]
               /\ UNCHANGED <<coder, cache_log>>
          ELSE /\ coder' = [coder EXCEPT
                    !.code_fixes = dict_set(@, call.pattern, fix),
                    !.bug_patterns = dict_set(@, call.pattern,
                        [occurrences |-> 1, last_input |-> call.req.input])]
               /\ fix_calls' = [fix_calls EXCEPT ![c] =
                    [st |-> "done", req |-> call.req, pattern |-> call.pattern,
                     generate_calls |-> 1,
                     result |-> generated_fix_result(call.pattern, analysis)]]
               /\ cache_log' = [cache_log EXCEPT
                    !.stored = Append(@, [pattern |-> call.pattern, fix |-> fix])]
    /\ UNCHANGED <<buggy_vars, gateway_vars, harden_vars, clock_vars,
                   agent_vars, graph_vars, heal_vars, vuln_vars, bench_vars, sec_vars>>

\* requests made one after the other by a single caller
CacheSeqNext ==
    \/ \E r \in BugRequests : AnalyzeStart("c1", r)
    \/ \E o \in GenOutcomes : AnalyzeGenerated("c1", o)

\* requests of several callers, in flight at the same time
CacheNext ==
    \/ \E c \in Callers, r \in BugRequests : AnalyzeStart(c, r)
    \/ \E c \in Callers, o \in GenOutcomes : AnalyzeGenerated(c, o)

\* -------------------------------------------------------- VulnerableAgent
\* execute() calls started on the VulnerableAgent
MaxVulnExec == 2

\* vulnerable_agent.py:58  `user_input[:100]`
AttemptInputLimit == 100

\* s[:n]
prefix(s, n) == SubSeq(s, 1, IF Len(s) < n THEN Len(s) ELSE n)

\* s[::-1]
RECURSIVE reversed(_)
reversed(s) ==
    IF Len(s) = 0 THEN ""
    ELSE reversed(SubSeq(s, 2, Len(s))) \o SubSeq(s, 1, 1)

\* self.attack_patterns, lines 25-42, in the order of the dict.  A pattern
\* ".*(A|B).*" under re.search matches where A or B occurs.
AttackPatterns ==
    <<[attack_type |-> "sql_injection",
       patterns |-> <<{<<Cls({"'", ";"})>>, <<Lit("--")>>, <<Lit("union")>>,
                       <<Lit("select")>>},
                      {<<Lit("drop")>>, <<Lit("delete")>>, <<Lit("insert")>>,
                       <<Lit("update")>>},
                      {<<Lit("or"), Plus(Whitespace), Cls({"'", "1"}), Lit("="),
                         Cls({"'", "1"})>>}>>],
      [attack_type |-> "xss",
       patterns |-> <<{<<Lit("<script>")>>, <<Lit("javascript:")>>,
                       <<Lit("onload=")>>},
                      {<<Lit("alert(")>>, <<Lit("document.cookie")>>}>>],
      [attack_type |-> "path_traversal",
       patterns |-> <<{<<Lit("../")>>, <<Lit("..\\")>>},
                      {<<Lit("/etc/passwd")>>, <<Lit("C:\\Windows")>>}>>],
      [attack_type |-> "brute_force",
       patterns |-> <<{<<Lit("admin")>>, <<Lit("root")>>},
                      {<<Lit("password")>>, <<Lit("123456")>>,
                       <<Lit("qwerty")>>}>>]>>

\* Python's False, as a dict value
PyFalse == [py_false |-> TRUE]
truthy(v) == v # PyFalse

\* dict.get(key, default)
dict_get(d, k, default) == IF k \in DOMAIN d THEN d[k] ELSE default

\* VulnerableAgent.__init__, lines 12-42
VulnerableAgent_init(agent_id) ==
    [agent_id |-> agent_id,
     agent_type |-> "vulnerable",
     status |-> "healthy",
     error_count |-> 0,
     metrics |-> [total_requests |-> 0,
                  successful_requests |-> 0,
                  total_errors |-> 0],
     error_history |-> <<>>,
     healing_history |-> <<>>,
     attack_attempts |-> <<>>,
     security_measures |->
        [k \in {"sql_injection", "xss", "path_traversal", "rate_limit"} |->
            PyFalse],
     attack_patterns |-> AttackPatterns]

in_list(x, l) == \E i \in DOMAIN l : l[i] = x

\* _detect_attacks, lines 92-103: the loop from registry entry k on
RECURSIVE detect_from(_, _, _, _)
detect_from(attack_patterns, input_str, k, detected) ==
    IF k > Len(attack_patterns) THEN detected
    ELSE LET entry == attack_patterns[k]
             hit == \E j \in DOMAIN entry.patterns :
                        re_search(entry.patterns[j], input_str, TRUE)
         IN detect_from(attack_patterns, input_str, k + 1,
                IF hit /\ ~in_list(entry.attack_type, detected)
                THEN Append(detected, entry.attack_type)
                ELSE detected)

\* a detector that skips the categories a security measure is set for
detect_attacks_skips_defended(va, input_str) ==
    LET undefended(entry) ==
            ~truthy(dict_get(va.security_measures, entry.attack_type, PyFalse))
    IN detect_from(SelectSeq(va.attack_patterns, undefended), input_str, 1, <<>>)

detect_attacks(va, input_str) ==
    detect_from(va.attack_patterns, input_str, 1, <<>>)

\* the filter of lines 64-67 without its test of security_measures
unprotected_attacks_unfiltered(va, detected_attacks) == detected_attacks

\* the filter of lines 64-67 yielding the attacks in reverse order
unprotected_attacks_reversed(va, detected_attacks) ==
    LET unprotected(attack) ==
            ~truthy(dict_get(va.security_measures, attack, PyFalse))
        kept == SelectSeq(detected_attacks, unprotected)
    IN [i \in 1..Len(kept) |-> kept[Len(kept) + 1 - i]]

\* process(), lines 64-67: the detected attacks with no security measure
unprotected_attacks(va, detected_attacks) ==
    LET unprotected(attack) ==
            ~truthy(dict_get(va.security_measures, attack, PyFalse))
    IN SelectSeq(detected_attacks, unprotected)

\* process(), lines 53-80, when an attack was detected: the logged attempt
\* and the outcome
process_attack(va, user_input, detected_attacks) ==
    LET logged == [va EXCEPT !.attack_attempts =
                      Append(@, [input |-> prefix(user_input, AttemptInputLimit),
                                 attacks |-> detected_attacks])]
        unprot == unprotected_attacks(va, detected_attacks)
    IN [agent |-> logged,
        outcome |->
            IF Len(unprot) > 0
            THEN RaisesExc("Security vulnerability exploited: " \o unprot[1])
            ELSE Returns([result |-> "Attack blocked", protected |-> TRUE,
                          attacks_detected |-> detected_attacks])]

\* process(), lines 85-90: normal processing, after the sleep
process_normal(user_input, action) ==
    IF action = "echo" THEN [result |-> "Echo: " \o user_input]
    ELSE IF action = "reverse" THEN [result |-> reversed(user_input)]
    ELSE [result |-> "Processed: " \o user_input]

\* add_security_measure, lines 105-111
add_security_measure(va, attack_type, measure_code) ==
    [va EXCEPT !.security_measures =
        dict_set(@, attack_type, [code |-> measure_code, applied |-> TRUE])]

\* The tasks given to the VulnerableAgent.
VulnTasks ==
    {[input |-> "<script>alert(1)</script>", action |-> "echo"],
     [input |-> "admin' OR '1'='1", action |-> "echo"],
     [input |-> "SELECT <Script>", action |-> "echo"],
     [input |-> "../etc", action |-> "echo"],
     [input |-> "hello", action |-> "reverse"]}
VulnInputs == {t.input : t \in VulnTasks}
MeasureTypes == {"sql_injection", "xss", "path_traversal", "rate_limit",
                 "brute_force"}

InitVuln ==
    /\ vuln = VulnerableAgent_init("vulnerable_agent")
    /\ vuln_calls = [c \in Callers |-> [st |-> "idle"]]
    /\ detect_log = {}

\* execute(task) on the VulnerableAgent: on a detected attack process()
\* does not await, so execute() runs to its return; otherwise it runs to
\* the sleep of process().
VulnExecute(c, task) ==
    /\ vuln_calls[c].st # "sleeping"
    /\ vuln.metrics.total_requests < MaxVulnExec
    /\ \E detected \in {detect_attacks(vuln, task.input)} :
       LET entered == execute_enter(vuln)
           p == process_attack(entered, task.input, detected)
           raised == execute_on_raise(p.agent, p.outcome.error, task)
           returned == execute_on_return(p.agent)
       IN /\ detect_log' = detect_log \cup
                {[input |-> task.input, detected |-> detected]}
          /\ IF Len(detected) = 0
             THEN /\ vuln' = entered
                  /\ vuln_calls' = [vuln_calls EXCEPT ![c] =
                        [st |-> "sleeping", task |-> task]]
             ELSE IF p.outcome.exc
             THEN /\ vuln' = raised
                  /\ vuln_calls' = [vuln_calls EXCEPT ![c] =
                        [st |-> "done", task |-> task, detected |-> detected,
                         measures |-> vuln.security_measures,
                         result |-> result_failure(raised, p.outcome.error)]]
             ELSE /\ vuln' = returned
                  /\ vuln_calls' = [vuln_calls EXCEPT ![c] =
                        [st |-> "done", task |-> task, detected |-> detected,
                         measures |-> vuln.security_measures,
                         result |-> result_success(returned, p.outcome.value)]]
    /\ UNCHANGED <<buggy_vars, gateway_vars, harden_vars, clock_vars,
                   agent_vars, graph_vars, heal_vars, cache_vars, bench_vars, sec_vars>>

\* the sleep of process() ends: the normal result is returned
VulnSleepDone(c) ==
    /\ vuln_calls[c].st = "sleeping"
    /\ LET task == vuln_calls[c].task
           returned == execute_on_return(vuln)
       IN /\ vuln' = returned
          /\ vuln_calls' = [vuln_calls EXCEPT ![c] =
                [st |-> "done", task |-> task, detected |-> <<>>,
                 result |-> result_success(returned,
                              process_normal(task.input, task.action))]]
    /\ UNCHANGED <<buggy_vars, gateway_vars, harden_vars, clock_vars,
                   detect_log, agent_vars, graph_vars, heal_vars, cache_vars, bench_vars, sec_vars>>

\* add_security_measure(attack_type, measure_code)
AddSecurityMeasure(attack_type, measure_code) ==
    /\ vuln' = add_security_measure(vuln, attack_type, measure_code)
    /\ UNCHANGED <<buggy_vars, gateway_vars, harden_vars, clock_vars,
                   vuln_calls, detect_log,
                   agent_vars, graph_vars, heal_vars, cache_vars, bench_vars, sec_vars>>

\* the requests of one caller, one after the other
VulnNext ==
    \/ \E t \in VulnTasks : VulnExecute("c1", t)
    \/ VulnSleepDone("c1")
    \/ \E a \in MeasureTypes : AddSecurityMeasure(a, "defense code")

\* ------------------------------------------------------------ benchmark
\* tests/benchmark_runner.py: BenchmarkRunner runs the cases of a benchmark
\* one after the other against one CodeHealingAgent whose LLM is a stand-in.

MaxCases == 3

\* A score is a fraction, kept exact as numerator and denominator.
Frac(n, d) == [num |-> n, den |-> d]

\* str.replace(old, "") for a one-character old
RECURSIVE remove_char(_, _)
remove_char(s, ch) ==
    IF Len(s) = 0 THEN ""
    ELSE (IF SubSeq(s, 1, 1) = ch THEN "" ELSE SubSeq(s, 1, 1))
             \o remove_char(SubSeq(s, 2, Len(s)), ch)

\* The fix texts of the checks, and those of them ast.parse() accepts.
FixCodes ==
    {"", "x = (", "if x: pass", "try:\n  y\nexcept: pass", "try: if except",
     "try:\n  if x: null_check()\nexcept: pass",
     "if x: Null_Check(); zero_check()",
     "try:\n  if x: nullcheck\nexcept: zerocheck",
     "len(", "x is not None", "if b: nullcheck(a / b)",
     "if b: division_by_zero()"}
ast_parses(fix_code) ==
    fix_code \in {"", "if x: pass", "try:\n  y\nexcept: pass",
                  "try:\n  if x: null_check()\nexcept: pass",
                  "if x: Null_Check(); zero_check()",
                  "try:\n  if x: nullcheck\nexcept: zerocheck",
                  "x is not None", "if b: nullcheck(a / b)",
                  "if b: division_by_zero()",
                  "if b: nullcheck(s / n)", "if b: nullcheck(json.loads(s))"}

\* The cases handed to validate_fix: their expected_fixes lists, and a
\* case without the key.
ExpectedFixes ==
    {<<>>, <<"nullcheck">>, <<"division_by_zero">>,
     <<"nullcheck", "division_by_zero">>,
     <<"nullcheck", "zerocheck", "division_by_zero">>}
ValidateCases ==
    {[name |-> "t"]}
        \cup {[name |-> "t", expected_fixes |-> e] : e \in ExpectedFixes}

\* The fix_result dicts handed to validate_fix: with and without a fix.
FixResults ==
    {[fix_generated |-> g, fix_code |-> c] : g \in BOOLEAN, c \in FixCodes}

\* validate_fix, lines 241-245: the number of expected fixes the text names
RECURSIVE addressed_from(_, _, _)
addressed_from(expected_fixes, text, k) ==
    IF k > Len(expected_fixes) THEN 0
    ELSE (IF contains(text, expected_fixes[k]) THEN 1 ELSE 0)
             + addressed_from(expected_fixes, text, k + 1)

\* validate_fix, lines 223-238: the checks that count one each
whole_checks(fix_code) ==
    (IF ast_parses(fix_code) THEN 1 ELSE 0)
    + (IF contains(fix_code, "try:") /\ contains(fix_code, "except")
       THEN 1 ELSE 0)
    + (IF \E keyword \in {"if", "is not None", "isinstance", "len("} :
              contains(fix_code, keyword)
       THEN 1 ELSE 0)

\* a validation that accepts a score of one half
validate_fix_from_half(case, fix) ==
    IF ~dict_get(fix, "fix_generated", FALSE)
    THEN [valid |-> FALSE, improvement_score |-> Frac(0, 1)]
    ELSE LET fix_code == dict_get(fix, "fix_code", "")
             expected_fixes == dict_get(case, "expected_fixes", <<>>)
             n == IF Len(expected_fixes) > 0 THEN Len(expected_fixes) ELSE 1
             addressed == addressed_from(expected_fixes,
                              remove_char(lower(fix_code), "_"), 1)
             total_checks == 4
             checks_passed == Frac(whole_checks(fix_code) * n + addressed, n)
             improvement == Frac(checks_passed.num,
                                 checks_passed.den * total_checks)
         IN [valid |-> 2 * improvement.num >= improvement.den,
             improvement_score |-> improvement,
             checks_passed |-> checks_passed,
             total_checks |-> total_checks]

\* validate_fix(test_case, analysis, fix_result), lines 210-257
validate_fix(test_case, fix_result) ==
    IF ~dict_get(fix_result, "fix_generated", FALSE)
    THEN [valid |-> FALSE, improvement_score |-> Frac(0, 1)]
    ELSE LET fix_code == dict_get(fix_result, "fix_code", "")
             expected_fixes == dict_get(test_case, "expected_fixes", <<>>)
             n == IF Len(expected_fixes) > 0 THEN Len(expected_fixes) ELSE 1
             addressed == addressed_from(expected_fixes,
                              remove_char(lower(fix_code), "_"), 1)
             total_checks == 4
             checks_passed == Frac(whole_checks(fix_code) * n + addressed, n)
             improvement == Frac(checks_passed.num,
                                 checks_passed.den * total_checks)
         IN [valid |-> 2 * improvement.num > improvement.den,
             improvement_score |-> improvement,
             checks_passed |-> checks_passed,
             total_checks |-> total_checks]

\* a detector that looks for the keyword in the text as written
analyze_buggy_code_case_sensitive(case) ==
    LET original_code == case["original_code"]
        b1 == IF contains(original_code, "/")
                 /\ ~contains(original_code, "zero")
              THEN <<"division_by_zero">> ELSE <<>>
        b2 == IF contains(original_code, ".name")
                 \/ contains(original_code, ".upper()")
              THEN <<"null_pointer">> ELSE <<>>
        b3 == IF contains(original_code, "json.loads")
                 /\ ~contains(original_code, "try:")
              THEN <<"json_parsing_unsafe">> ELSE <<>>
        b4 == IF contains(lower(original_code), "large")
                 \/ contains(original_code, "1000000")
              THEN <<"memory_issue">> ELSE <<>>
    IN [bugs_found |-> b1 \o b2 \o b3 \o b4]

\* analyze_buggy_code(test_case), lines 159-186; total_lines and
\* complexity are left out, nothing reads them.
analyze_buggy_code(test_case) ==
    LET original_code == test_case["original_code"]
        b1 == IF contains(original_code, "/")
                 /\ ~contains(lower(original_code), "zero")
              THEN <<"division_by_zero">> ELSE <<>>
        b2 == IF contains(original_code, ".name")
                 \/ contains(original_code, ".upper()")
              THEN <<"null_pointer">> ELSE <<>>
        b3 == IF contains(original_code, "json.loads")
                 /\ ~contains(original_code, "try:")
              THEN <<"json_parsing_unsafe">> ELSE <<>>
        b4 == IF contains(lower(original_code), "large")
                 \/ contains(original_code, "1000000")
              THEN <<"memory_issue">> ELSE <<>>
    IN [bugs_found |-> b1 \o b2 \o b3 \o b4]

\* The source texts handed to the detector.
OriginalCodes ==
    {"a / b", "a / b if b else ZERO", "a / b  # zero checked", "x = 1",
     "json.loads(s)", "try:\n  json.loads(s)", "u.name", "s.upper()",
     "Large = 1", "n = 1000000", "zero", "u.name / Zero", "s / n"}
DetectorCases == {[name |-> "t", original_code |-> c] : c \in OriginalCodes}

\* The cases of a benchmark file: name, original_code, expected_fixes.
TestCases ==
    {[name |-> "ratio", original_code |-> "a / b",
      expected_fixes |-> <<"nullcheck">>],
     [name |-> "mean", original_code |-> "s / n",
      expected_fixes |-> <<"nullcheck">>],
     [name |-> "json load", original_code |-> "json.loads(s)",
      expected_fixes |-> <<"nullcheck", "division_by_zero">>],
     [name |-> "safe", original_code |-> "x = 1"]}

\* The deterministic stand-ins for the LLM: MockLLM, whose answer to the
\* bug prompt is its diagnosis document; one that answers with the
\* document the prompt asks for; one whose every call raises.
StandIns == {"MockLLM", "FixerLLM", "FailingLLM"}

\* llm.generate(prompt): mock_llm.py lines 130-137 for MockLLM (the prompt
\* of analyze_and_fix_bug holds "root cause" and so draws the diagnosis)
generate(llm, prompt) ==
    CASE llm = "MockLLM" -> Returns("{\"root_cause\": \"db\"}")
      [] llm = "FixerLLM" ->
            Returns("{\"corrected_code\": \"if b: nullcheck("
                        \o prompt.code \o ")\"}")
      [] OTHER -> RaisesExc("Qwen API error")

\* dict.get(key, default) on the analysis: a parsed one-member document
\* {"key": "text"} or the wrapped raw response
analysis_get(analysis, key, default) ==
    IF "json" \notin DOMAIN analysis THEN dict_get(analysis, key, default)
    ELSE LET doc == analysis.json
             head == "{\"" \o key \o "\": \""
             tail == "\"}"
         IN IF /\ Len(doc) >= Len(head) + Len(tail)
               /\ SubSeq(doc, 1, Len(head)) = head
               /\ SubSeq(doc, Len(doc) - Len(tail) + 1, Len(doc)) = tail
            THEN SubSeq(doc, Len(head) + 1, Len(doc) - Len(tail))
            ELSE default

\* CodeHealingAgent.analyze_and_fix_bug(task) run from call to return, as
\* the benchmark awaits it: the agent afterwards and the dict returned
analyze_and_fix_bug(agent, llm, task) ==
    LET req == [error |-> task.error, input |-> task.input]
        bug_pattern == extract_bug_pattern(task.error, task.input)
        outcome == generate(llm, task)
        analysis == parse_analysis(outcome.value)
    IN IF cache_hit(agent.code_fixes, bug_pattern)
       THEN [agent |-> agent,
             result |-> existing_fix_result(agent.code_fixes, bug_pattern)]
       ELSE IF outcome.exc
       THEN [agent |-> agent, result |-> failed_fix_result(outcome.error)]
       ELSE [agent |-> [agent EXCEPT
                 !.code_fixes = dict_set(@, bug_pattern,
                                    new_fix(bug_pattern, analysis, req)),
                 !.bug_patterns = dict_set(@, bug_pattern,
                     [occurrences |-> 1, last_input |-> task.input])],
             result |-> generated_fix_result(bug_pattern, analysis)]

\* generate_fix(test_case, analysis), lines 188-208
generate_fix(agent, llm, test_case) ==
    LET fix_of(call) ==
            LET fix_result == call.result
                analysis == dict_get(fix_result, "analysis", EmptyDict)
            IN [agent |-> call.agent,
                result |->
                    [fix_generated |-> dict_get(fix_result, "success", FALSE),
                     fix_code |-> analysis_get(analysis, "corrected_code", ""),
                     analysis |-> analysis]]
    IN fix_of(analyze_and_fix_bug(agent, llm,
                  [error |-> "Bug in " \o test_case.name,
                   input |-> "test input",
                   code |-> test_case.original_code]))

\* run_test_case(test_case), lines 101-157: the agent afterwards and the
\* TestResult; bugs_missed is the list of a set and is kept as the set.
run_test_case(agent, llm, test_case) ==
    LET expected == dict_get(test_case, "expected_fixes", <<>>)
        Elems(l) == {l[i] : i \in DOMAIN l}
        blank == [test_name |-> test_case.name, success |-> FALSE,
                  bugs_detected |-> <<>>, bugs_missed |-> {},
                  fix_generated |-> FALSE, fix_valid |-> FALSE,
                  fix_improvement |-> Frac(0, 1)]
        validated(analysis, fix, validation) ==
            [agent |-> fix.agent,
             result |-> [blank EXCEPT !.success = TRUE,
                             !.bugs_detected = analysis.bugs_found,
                             !.fix_generated = TRUE,
                             !.fix_valid = validation.valid,
                             !.fix_improvement = validation.improvement_score,
                             !.bugs_missed = Elems(expected)
                                   \ Elems(analysis.bugs_found)]]
        fixed(analysis, fix) ==
            IF ~fix.result.fix_generated
            THEN [agent |-> fix.agent,
                  result |-> [blank EXCEPT !.success = TRUE,
                                  !.bugs_detected = analysis.bugs_found]]
            ELSE validated(analysis, fix, validate_fix(test_case, fix.result))
        analyzed(analysis) ==
            IF Len(analysis.bugs_found) = 0
            THEN [agent |-> agent,
                  result |-> [blank EXCEPT !.bugs_missed = Elems(expected)]]
            ELSE fixed(analysis, generate_fix(agent, llm, test_case))
    IN analyzed(analyze_buggy_code(test_case))

NoCall == [op |-> "none"]
InitBench ==
    bench = [st |-> "new", llm |-> "none",
             healing_agent |-> [code_fixes |-> EmptyDict,
                                bug_patterns |-> EmptyDict],
             results |-> <<>>, call |-> NoCall]

\* one call of validate_fix
ValidateFix(test_case, fix_result) ==
    /\ bench' = [bench EXCEPT !.call =
           [op |-> "validate_fix", test_case |-> test_case,
            fix_result |-> fix_result,
            result |-> validate_fix(test_case, fix_result)]]
    /\ UNCHANGED <<buggy_vars, gateway_vars, harden_vars, clock_vars,
                   agent_vars, graph_vars, heal_vars, cache_vars, vuln_vars,
                   sec_vars>>

\* one call of analyze_buggy_code
AnalyzeBuggyCode(test_case) ==
    /\ bench' = [bench EXCEPT !.call =
           [op |-> "analyze_buggy_code", test_case |-> test_case,
            result |-> analyze_buggy_code(test_case)]]
    /\ UNCHANGED <<buggy_vars, gateway_vars, harden_vars, clock_vars,
                   agent_vars, graph_vars, heal_vars, cache_vars, vuln_vars,
                   sec_vars>>

BenchChecksNext ==
    \/ \E t \in ValidateCases, fr \in FixResults : ValidateFix(t, fr)
    \/ \E t \in DetectorCases : AnalyzeBuggyCode(t)

\* run_benchmark, lines 265-271: the healing agent is created with its
\* stand-in LLM and the results start empty
InitializeHealingAgent(llm) ==
    /\ bench.st = "new"
    /\ bench' = [bench EXCEPT !.st = "running", !.llm = llm]
    /\ UNCHANGED <<buggy_vars, gateway_vars, harden_vars, clock_vars,
                   agent_vars, graph_vars, heal_vars, cache_vars, vuln_vars,
                   sec_vars>>

\* run_benchmark, lines 273-278: the next case is run and its result kept
RunTestCase(test_case) ==
    /\ bench.st = "running"
    /\ Len(bench.results) < MaxCases
    /\ LET kept(run) == [bench EXCEPT
               !.healing_agent = run.agent,
               !.results = Append(@, [test_case |-> test_case,
                                      result |-> run.result])]
       IN bench' = kept(run_test_case(bench.healing_agent, bench.llm,
                                      test_case))
    /\ UNCHANGED <<buggy_vars, gateway_vars, harden_vars, clock_vars,
                   agent_vars, graph_vars, heal_vars, cache_vars, vuln_vars,
                   sec_vars>>

BenchNext ==
    \/ \E llm \in StandIns : InitializeHealingAgent(llm)
    \/ \E t \in TestCases : RunTestCase(t)

\* ----------------------------------------------------- security defenses
\* SecurityHealingAgent.analyze_security_attack: defenses cached under the
\* hash of the attack pattern, and the threat-intelligence ledger.
MaxSecRequests == 3

\* hashlib.md5(text.encode()).hexdigest()[:8] on the texts hashed here
md5_8(text) ==
    CASE text = "sql" -> "ac5c74b6"
      [] text = "xss" -> "2c71e977"
      [] text = "path" -> "d6fe1d0b"
      [] text = "path_sql" -> "0465fd4c"
      [] text = "sql_xss" -> "9693598f"
      [] text = "path_xss" -> "0f35b486"
      [] text = "path_sql_xss" -> "63395da3"
      [] text = "hello" -> "5d41402a"
      [] text = "hi" -> "49f68a5c"
      [] text = "" -> "d41d8cd9"
      [] text = "def clean(s): return s" -> "99995c6f"
      [] text = "import html" -> "4a1beadf"

\* a hash that is taken of the attack text whatever patterns it shows
hash_attack_pattern_of_text(text) == md5_8(text)

\* _hash_attack_pattern, lines 291-313; sorted() of the three names puts
\* "path" before "sql" before "xss"
hash_attack_pattern(attack_input) ==
    LET sql == IF re_search({<<Cls({"'", ";"})>>, <<Lit("--")>>,
                             <<Lit("union")>>, <<Lit("select")>>},
                            attack_input, TRUE)
               THEN <<"sql">> ELSE <<>>
        xss == IF re_search({<<Lit("<script>")>>, <<Lit("javascript:")>>,
                             <<Lit("onload=")>>}, attack_input, TRUE)
               THEN <<"xss">> ELSE <<>>
        path == IF re_search({<<Lit("../")>>, <<Lit("..\\")>>},
                             attack_input, FALSE)
                THEN <<"path">> ELSE <<>>
        patterns == path \o sql \o xss
    IN IF Len(patterns) > 0 THEN md5_8(join(patterns))
       ELSE md5_8(attack_input)

\* The analyze_attack tasks: the attack text and, where given, its type.
AttackTasks ==
    {[attack_input |-> "' OR 1=1", attack_type |-> "sql_injection"],
     [attack_input |-> "1; DROP", attack_type |-> "sql_injection"],
     [attack_input |-> "1; DROP", attack_type |-> "xss"],
     [attack_input |-> "<SCRIPT>x", attack_type |-> "xss"],
     [attack_input |-> "hello"]}

\* _hash_attack_pattern on the attack texts of the tasks, computed once
AttackHashes ==
    [text \in {dict_get(t, "attack_input", "") : t \in AttackTasks} |->
        hash_attack_pattern(text)]

\* lines 77-83: the answer on a cache hit
existing_defense_result(attack_defenses, attack_hash) ==
    [success |-> TRUE, action |-> "apply_existing_defense",
     attack_hash |-> attack_hash, defense |-> attack_defenses[attack_hash]]

\* lines 124-130: the defense stored under the hash
new_defense(security_analysis, attack_type, attack_input) ==
    [analysis |-> security_analysis, attack_type |-> attack_type,
     attack_input |-> prefix(attack_input, 100)]

\* a ledger that counts the occurrence but not the defense generated
update_threat_intelligence_occurrences_only(ledger, type) ==
    LET old == dict_get(ledger, type,
                        [occurrences |-> 0, defenses_generated |-> 0])
    IN dict_set(ledger, type,
                [occurrences |-> old.occurrences + 1,
                 defenses_generated |-> old.defenses_generated])

\* lines 133-141: the ledger entry of the type is created at zero if it is
\* missing, and both its counters go up by one
update_threat_intelligence(threat_intelligence, attack_type) ==
    LET entry == dict_get(threat_intelligence, attack_type,
                          [occurrences |-> 0, defenses_generated |-> 0])
    IN dict_set(threat_intelligence, attack_type,
                [occurrences |-> entry.occurrences + 1,
                 defenses_generated |-> entry.defenses_generated + 1])

\* lines 143-149 and 151-155: the answers after generate()
generated_defense_result(attack_hash, security_analysis) ==
    [success |-> TRUE, action |-> "generated_new_defense",
     attack_hash |-> attack_hash, analysis |-> security_analysis]
failed_defense_result(error) ==
    [success |-> FALSE, error |-> "Security analysis failed: " \o error]

InitSec ==
    /\ sec = [attack_defenses |-> EmptyDict, threat_intelligence |-> EmptyDict]
    /\ sec_calls = [c \in Callers |-> [st |-> "idle"]]
    /\ sec_log = <<>>

\* analyze_security_attack(task) up to its return on a hit, or to the await
\* of generate() on a miss
SecAnalyzeStart(c, task) ==
    /\ sec_calls[c].st # "generating"
    /\ Len(sec_log) + Cardinality({d \in Callers : sec_calls[d].st = "generating"})
          < MaxSecRequests
    /\ LET attack_input == dict_get(task, "attack_input", "")
           attack_type == dict_get(task, "attack_type", "unknown")
           attack_hash == AttackHashes[attack_input]
       IN IF attack_hash \in DOMAIN sec.attack_defenses
          THEN /\ sec_calls' = [sec_calls EXCEPT ![c] =
                    [st |-> "done", task |-> task, attack_hash |-> attack_hash,
                     attack_type |-> attack_type, generate_calls |-> 0,
                     result |-> existing_defense_result(sec.attack_defenses,
                                                        attack_hash)]]
               /\ sec_log' = Append(sec_log, [attack_type |-> attack_type,
                                              attack_hash |-> attack_hash,
                                              outcome |-> "hit"])
          ELSE /\ sec_calls' = [sec_calls EXCEPT ![c] =
                    [st |-> "generating", task |-> task,
                     attack_hash |-> attack_hash, attack_type |-> attack_type]]
               /\ UNCHANGED sec_log
    /\ UNCHANGED <<buggy_vars, gateway_vars, harden_vars, clock_vars,
                   sec, agent_vars, graph_vars, heal_vars, cache_vars, vuln_vars,
                   bench_vars>>

\* generate() answers: the defense is stored, the ledger updated and the
\* analysis returned, or the failure is reported (lines 109-155)
SecAnalyzeGenerated(c, outcome) ==
    /\ sec_calls[c].st = "generating"
    /\ LET call == sec_calls[c]
           security_analysis == parse_analysis(outcome.value)
           done(result) == [st |-> "done", task |-> call.task,
                            attack_hash |-> call.attack_hash,
                            attack_type |-> call.attack_type,
                            generate_calls |-> 1, result |-> result]
           entry(o) == [attack_type |-> call.attack_type,
                        attack_hash |-> call.attack_hash, outcome |-> o]
       IN IF outcome.exc
          THEN /\ sec_calls' = [sec_calls EXCEPT ![c] =
                    done(failed_defense_result(outcome.error))]
               /\ sec_log' = Append(sec_log, entry("failed"))
               /\ UNCHANGED sec
          ELSE /\ sec' = [sec EXCEPT
                    !.attack_defenses = dict_set(@, call.attack_hash,
                        new_defense(security_analysis, call.attack_type,
                                    dict_get(call.task, "attack_input", ""))),
                    !.threat_intelligence =
                        update_threat_intelligence(@, call.attack_type)]
               /\ sec_calls' = [sec_calls EXCEPT ![c] =
                    done(generated_defense_result(call.attack_hash,
                                                  security_analysis))]
               /\ sec_log' = Append(sec_log, entry("generated"))
    /\ UNCHANGED <<buggy_vars, gateway_vars, harden_vars, clock_vars,
                   agent_vars, graph_vars, heal_vars, cache_vars, vuln_vars,
                   bench_vars>>

\* requests of several callers, in flight at the same time
SecNext ==
    \/ \E c \in Callers, t \in AttackTasks : SecAnalyzeStart(c, t)
    \/ \E c \in Callers, o \in GenOutcomes : SecAnalyzeGenerated(c, o)

\* --------------------------------------------------- BuggyDataProcessor
\* src/agents/buggy_processor.py: a processor whose process() raises a
\* categorized fault for the inputs its registry of known bugs matches.
MaxBuggyExec == 3

\* re.compile of the patterns of known_bugs, lines 22, 27 and 32; any other
\* text used here has no metacharacter and matches itself
re_compile(pattern) ==
    CASE pattern = "special_case_\\d+" ->
            {<<Lit("special_case_"), Plus(Digits)>>}
      [] pattern = "large_dataset_\\d+" ->
            {<<Lit("large_dataset_"), Plus(Digits)>>}
      [] OTHER -> {<<Lit(pattern)>>}

\* self.known_bugs, lines 20-36
KnownBugs ==
    <<[pattern |-> "special_case_\\d+",
       description |-> "Causes division by zero for special_case_* inputs",
       fix |-> "Add validation check before division"],
      [pattern |-> "malformed_json",
       description |-> "Causes JSON parsing error for malformed_json inputs",
       fix |-> "Add try-catch around JSON parsing"],
      [pattern |-> "large_dataset_\\d+",
       description |-> "Causes memory overflow for large_dataset_* inputs",
       fix |-> "Implement chunked processing"]>>

\* BuggyDataProcessor.__init__, lines 12-36
BuggyDataProcessor_init(agent_id) ==
    [agent_id |-> agent_id,
     agent_type |-> "buggy_processor",
     status |-> "healthy",
     error_count |-> 0,
     metrics |-> [total_requests |-> 0,
                  successful_requests |-> 0,
                  average_response_time |-> ZeroTime,
                  total_errors |-> 0],
     error_history |-> <<>>,
     healing_history |-> <<>>,
     problematic_inputs |-> <<>>,
     bug_fixes |-> EmptyDict,
     known_bugs |-> KnownBugs]

\* an exception of a given class
RaisesTyped(type, e) == [exc |-> TRUE, type |-> type, error |-> e]

\* s.upper()
RECURSIVE upper(_)
upper(s) ==
    IF Len(s) = 0 THEN ""
    ELSE LET ch == SubSeq(s, 1, 1)
             up == {k \in 1..Len(LowerChars) : SubSeq(LowerChars, k, k) = ch}
         IN (IF up = {} THEN ch
             ELSE LET k == CHOOSE i \in up : TRUE IN SubSeq(UpperChars, k, k))
            \o upper(SubSeq(s, 2, Len(s)))

\* lines 46-53: the index of the first known bug whose pattern is found in
\* the data, 0 when none is (bug_triggered False)
triggered_bug(known_bugs, data) ==
    LET hits == {k \in DOMAIN known_bugs :
                    re_search(re_compile(known_bugs[k].pattern), data, FALSE)}
    IN IF hits = {} THEN 0 ELSE CHOOSE k \in hits : \A j \in hits : k <= j

\* lines 59-67 and 81: the faulty path, after the sleep
faulty_path(data) ==
    IF contains(data, "special_case_")
    THEN RaisesTyped("ZeroDivisionError", "Division by zero for input: " \o data)
    ELSE IF contains(data, "malformed_json")
    THEN RaisesTyped("ValueError", "JSON parsing error for: " \o data)
    ELSE IF contains(data, "large_dataset_")
    THEN RaisesTyped("MemoryError", "Memory overflow processing: " \o data)
    ELSE Returns([result |-> "Should not reach here"])

\* lines 72-79: normal processing, after the sleep
normal_path(data, operation) ==
    IF operation = "reverse" THEN Returns([result |-> reversed(data)])
    ELSE IF operation = "uppercase" THEN Returns([result |-> upper(data)])
    ELSE IF operation = "count" THEN Returns([result |-> Len(data)])
    ELSE Returns([result |-> "Processed: " \o data])

\* add_bug_fix, lines 83-96
add_bug_fix(bp, pattern, fix_code) ==
    LET same == {k \in DOMAIN bp.known_bugs : bp.known_bugs[k].pattern = pattern}
        first == CHOOSE k \in same : \A j \in same : k <= j
    IN [bp EXCEPT
        !.bug_fixes = dict_set(@, pattern,
                          [fix_code |-> fix_code, applied |-> FALSE]),
        !.known_bugs = IF same = {} THEN @
                       ELSE [@ EXCEPT ![first] =
                                dict_set(dict_set(@, "fixed", TRUE),
                                         "fix_code", fix_code)]]

\* The tasks given to the BuggyDataProcessor.
BuggyTasks ==
    {[data |-> "special_case_1", operation |-> "process"],
     [data |-> "malformed_json", operation |-> "process"],
     [data |-> "large_dataset_7", operation |-> "process"],
     [data |-> "large_dataset_7 special_case_9", operation |-> "process"],
     [data |-> "malformed_json special_case_", operation |-> "process"],
     [data |-> "special_case_", operation |-> "count"],
     [data |-> "Hello", operation |-> "reverse"],
     [data |-> "Hello", operation |-> "uppercase"],
     [data |-> "Hello"]}
\* The patterns fixes are registered for: a registry pattern, and the
\* signature name the code-healing agent files the fix under.
FixPatterns == {"special_case_\\d+", "special_case_number"}

InitBuggy ==
    /\ buggy = BuggyDataProcessor_init("buggy_processor")
    /\ buggy_calls = [c \in Callers |-> [st |-> "idle"]]

\* execute(task) on the BuggyDataProcessor up to the sleep of process():
\* the request is counted and the registry searched (lines 40-57, 70)
BuggyExecuteStart(c, task) ==
    /\ buggy_calls[c].st # "sleeping"
    /\ buggy.metrics.total_requests < MaxBuggyExec
    /\ buggy' = execute_enter(buggy)
    /\ buggy_calls' = [buggy_calls EXCEPT ![c] =
          [st |-> "sleeping", task |-> task,
           data |-> dict_get(task, "data", ""),
           operation |-> dict_get(task, "operation", "process"),
           fixes |-> buggy.bug_fixes,
           triggered |-> triggered_bug(buggy.known_bugs,
                                       dict_get(task, "data", ""))]]
    /\ UNCHANGED <<agent_vars, graph_vars, heal_vars, cache_vars, vuln_vars,
                   bench_vars, sec_vars, gateway_vars, harden_vars, clock_vars>>

\* the sleep ends: the fault is raised or the result returned, and
\* execute() counts it and returns its dict
BuggyProcessDone(c) ==
    /\ buggy_calls[c].st = "sleeping"
    /\ LET call == buggy_calls[c]
           outcome == IF call.triggered # 0
                      THEN faulty_path(call.data)
                      ELSE normal_path(call.data, call.operation)
           raised == execute_on_raise(buggy, outcome.error, call.task)
           returned == execute_on_return(buggy)
       IN IF outcome.exc
          THEN /\ buggy' = raised
               /\ buggy_calls' = [buggy_calls EXCEPT ![c] =
                     [call EXCEPT !.st = "done"] @@
                     [fault |-> outcome.type,
                      result |-> result_failure(raised, outcome.error)]]
          ELSE /\ buggy' = returned
               /\ buggy_calls' = [buggy_calls EXCEPT ![c] =
                     [call EXCEPT !.st = "done"] @@
                     [fault |-> "none",
                      result |-> result_success(returned, outcome.value)]]
    /\ UNCHANGED <<agent_vars, graph_vars, heal_vars, cache_vars, vuln_vars,
                   bench_vars, sec_vars, gateway_vars, harden_vars, clock_vars>>

\* add_bug_fix(pattern, fix_code)
AddBugFix(pattern, fix_code) ==
    /\ pattern \notin DOMAIN buggy.bug_fixes
    /\ buggy' = add_bug_fix(buggy, pattern, fix_code)
    /\ UNCHANGED <<buggy_calls, agent_vars, graph_vars, heal_vars, cache_vars,
                   vuln_vars, bench_vars, sec_vars, gateway_vars, harden_vars,
                   clock_vars>>

\* the requests of one caller, one after the other, and fixes registered
\* in between
BuggyNext ==
    \/ \E t \in BuggyTasks : BuggyExecuteStart("c1", t)
    \/ BuggyProcessDone("c1")
    \/ \E p \in FixPatterns : AddBugFix(p, "# Fixed: " \o p)

\* ------------------------------------------------------ APIGatewayAgent
\* src/agents/specialized_agents.py: the gateway counts the requests of
\* each client and refuses a client above its limit.
MaxGatewayExec == 12
\* a backend timeout (line 104) is drawn only while the agent has recorded
\* fewer errors than this
MaxTimeouts == 1

\* specialized_agents.py:94  `> 10`
RateLimit == 10

\* f"req_{n:06d}" for the counts reached here
request_id(n) ==
    "req_0000" \o SubSeq("0123456789", (n \div 10) + 1, (n \div 10) + 1)
               \o SubSeq("0123456789", (n % 10) + 1, (n % 10) + 1)

\* APIGatewayAgent.__init__, lines 76-79
APIGatewayAgent_init(agent_id) ==
    BaseAgent_new(Given(arg_or(agent_id, "api_gateway")),
                  Given("api_gateway"), "00000000")
        @@ [request_count |-> 0, rate_limits |-> EmptyDict]

\* process(), lines 88-98: the rate-limit check of one request; the agent
\* afterwards, and whether the request passed
check_rate_limit(gw, client_id) ==
    IF client_id \in DOMAIN gw.rate_limits
    THEN IF gw.rate_limits[client_id] > RateLimit
         THEN [agent |-> gw, passed |-> FALSE]
         ELSE [agent |-> [gw EXCEPT !.rate_limits[client_id] = @ + 1],
               passed |-> TRUE]
    ELSE [agent |-> [gw EXCEPT !.rate_limits = dict_set(@, client_id, 1)],
          passed |-> TRUE]

\* process(), lines 107-119: the dict returned (the timestamp of the
\* response is a clock reading and is left out)
gateway_response(gw, call) ==
    [endpoint |-> call.endpoint,
     method |-> call.method,
     status |-> "success",
     request_id |-> request_id(gw.request_count),
     client_id |-> call.client_id,
     response |-> [message |-> "Processed " \o call.method \o " "
                                   \o call.endpoint,
                   data |-> IF call.method = "POST"
                            THEN Given(call.payload) ELSE NotGiven]]

\* The requests sent to the gateway: of a named client, and without a
\* client_id.
GatewayTasks ==
    {[endpoint |-> "/users", method |-> "GET", client_id |-> "k1"],
     [method |-> "POST", payload |-> "p"]}
Clients == {"k1", "default"}

InitGateway ==
    /\ gateway = APIGatewayAgent_init(NotGiven)
    /\ gateway_calls = [c \in Callers |-> [st |-> "idle"]]
    /\ gateway_log = [k \in Clients |-> 0]

\* execute(task) on the gateway up to the sleep of process(), or to its
\* return when the client is over its limit (lines 82-101)
GatewayExecuteStart(c, task) ==
    /\ gateway_calls[c].st # "sleeping"
    /\ gateway.metrics.total_requests < MaxGatewayExec
    /\ LET client_id == dict_get(task, "client_id", "default")
           entered == [execute_enter(gateway) EXCEPT !.request_count = @ + 1]
           check == check_rate_limit(entered, client_id)
           err == "Rate limit exceeded for client: " \o client_id
           raised == execute_on_raise(entered, err, task)
           call == [st |-> "sleeping", task |-> task,
                    endpoint |-> dict_get(task, "endpoint", "/"),
                    method |-> dict_get(task, "method", "GET"),
                    payload |-> dict_get(task, "payload", EmptyDict),
                    client_id |-> client_id,
                    passed |-> check.passed]
       IN IF check.passed
          THEN /\ gateway' = check.agent
               /\ gateway_calls' = [gateway_calls EXCEPT ![c] = call]
               /\ gateway_log' = [gateway_log EXCEPT ![client_id] = @ + 1]
          ELSE /\ gateway' = raised
               /\ gateway_calls' = [gateway_calls EXCEPT ![c] =
                     [call EXCEPT !.st = "done"]
                         @@ [result |-> result_failure(raised, err)]]
               /\ UNCHANGED gateway_log
    /\ UNCHANGED <<agent_vars, graph_vars, heal_vars, cache_vars, vuln_vars,
                   bench_vars, sec_vars, buggy_vars, harden_vars, clock_vars>>

\* the sleep ends: the backend times out (random.random() < 0.08) or the
\* response is returned (lines 104-119)
GatewayProcessDone(c, timeout) ==
    /\ gateway_calls[c].st = "sleeping"
    /\ timeout => Len(gateway.error_history) < MaxTimeouts
    /\ LET call == gateway_calls[c]
           err == "API Gateway timeout: Backend service unavailable"
           raised == execute_on_raise(gateway, err, call.task)
           returned == execute_on_return(gateway)
       IN IF timeout
          THEN /\ gateway' = raised
               /\ gateway_calls' = [gateway_calls EXCEPT ![c] =
                     [call EXCEPT !.st = "done"]
                         @@ [result |-> result_failure(raised, err)]]
          ELSE /\ gateway' = returned
               /\ gateway_calls' = [gateway_calls EXCEPT ![c] =
                     [call EXCEPT !.st = "done"]
                         @@ [result |-> result_success(returned,
                                gateway_response(gateway, call))]]
    /\ UNCHANGED <<gateway_log, agent_vars, graph_vars, heal_vars, cache_vars,
                   vuln_vars, bench_vars, sec_vars, buggy_vars, harden_vars,
                   clock_vars>>

\* the requests of one caller, one after the other
GatewayNext ==
    \/ \E t \in GatewayTasks : GatewayExecuteStart("c1", t)
    \/ \E timeout \in BOOLEAN : GatewayProcessDone("c1", timeout)

\* ------------------------------------------------- security hardening
\* SecurityHealingAgent.harden_agent_security: one defense generated per
\* requested attack type, then the hardened code generated from them.
MaxHardenRuns == 2

\* The harden_agent tasks and what generate() may answer to them.
HardenTasks ==
    {[agent_id |-> "vulnerable_agent", attack_types |-> ts,
      current_code |-> "class VulnerableAgent: pass"] :
        ts \in {<<>>, <<"sql_injection">>, <<"sql_injection", "xss">>}}
DefenseOutcomes ==
    {[exc |-> TRUE, error |-> e] : e \in LLMErrors}
        \cup {[exc |-> FALSE, value |-> r] :
                r \in {"def clean(s): return s", "import html"}}

\* generate_security_defense(task), lines 157-209, from the answer of
\* generate() on: the agent afterwards and the dict returned
generate_security_defense(sha, task, outcome) ==
    IF outcome.exc
    THEN [agent |-> sha,
          result |-> [success |-> FALSE,
                      error |-> "Defense generation failed: " \o outcome.error]]
    ELSE LET patch_id == "patch_" \o md5_8(outcome.value)
         IN [agent |-> [sha EXCEPT !.security_patches =
                          dict_set(@, patch_id,
                              [attack_type |-> task.attack_type,
                               defense_code |-> outcome.value,
                               vulnerability |-> task.vulnerability])],
             result |-> [success |-> TRUE, patch_id |-> patch_id,
                         defense_code |-> outcome.value,
                         attack_type |-> task.attack_type,
                         message |-> "Generated defense for "
                                         \o task.attack_type]]

\* lines 220-226: the task handed to generate_security_defense
defense_task(attack_type, current_code) ==
    [attack_type |-> attack_type,
     vulnerability |-> "Vulnerable to " \o attack_type,
     code_context |-> current_code]

\* lines 243-250 and 252-255: the dicts harden_agent_security returns
hardened_result(agent_id, hardened_code, all_defenses) ==
    [success |-> TRUE, agent_id |-> agent_id,
     hardened_code |-> hardened_code,
     applied_defenses |-> all_defenses,
     defense_count |-> Len(all_defenses),
     message |-> "Hardened agent against "
                     \o <<"1", "2", "3">>[Len(all_defenses)]
                     \o " attack types"]
no_defenses_result == [success |-> FALSE, error |-> "No defenses generated"]

InitHarden ==
    /\ hardener = [security_patches |-> EmptyDict]
    /\ harden_calls = [c \in Callers |-> [st |-> "idle", runs |-> 0]]

\* where harden_agent_security stands once the loop has dealt with
\* attack type k: at the next generate_security_defense, at
\* _generate_hardened_code, or at its return without defenses
after_attack_type(call, k, all_defenses) ==
    IF k < Len(call.attack_types)
    THEN [call EXCEPT !.st = "defending", !.k = k + 1,
                      !.all_defenses = all_defenses]
    ELSE IF Len(all_defenses) > 0
    THEN [call EXCEPT !.st = "hardening", !.k = k,
                      !.all_defenses = all_defenses]
    ELSE [call EXCEPT !.st = "done", !.k = k, !.all_defenses = all_defenses,
                      !.outcome = Returns(no_defenses_result)]

\* harden_agent_security(task) up to its first await, lines 211-220
HardenStart(c, task) ==
    /\ harden_calls[c].st \in {"idle", "done"}
    /\ harden_calls[c].runs < MaxHardenRuns
    /\ harden_calls' = [harden_calls EXCEPT ![c] =
          after_attack_type(
              [st |-> "idle", runs |-> harden_calls[c].runs + 1,
               agent_id |-> dict_get(task, "agent_id", ""),
               attack_types |-> dict_get(task, "attack_types", <<>>),
               current_code |-> dict_get(task, "current_code", ""),
               k |-> 0, all_defenses |-> <<>>, generated |-> <<>>,
               outcome |-> Returns(no_defenses_result)],
              0, <<>>)]
    /\ UNCHANGED <<hardener, agent_vars, graph_vars, heal_vars, cache_vars,
                   vuln_vars, bench_vars, sec_vars, buggy_vars, gateway_vars,
                   clock_vars>>

\* generate() answers inside generate_security_defense for attack type k:
\* lines 181-209, then 228-240 of the loop
HardenDefenseGenerated(c, outcome) ==
    /\ harden_calls[c].st = "defending"
    /\ LET call == [harden_calls[c] EXCEPT
                       !.generated = Append(@, ~outcome.exc)]
           attack_type == call.attack_types[call.k]
           defense == generate_security_defense(hardener,
                          defense_task(attack_type, call.current_code), outcome)
           kept == IF defense.result.success
                   THEN Append(call.all_defenses,
                            [attack_type |-> attack_type,
                             patch_id |-> defense.result.patch_id,
                             defense_code |-> defense.result.defense_code])
                   ELSE call.all_defenses
       IN /\ hardener' = defense.agent
          /\ harden_calls' = [harden_calls EXCEPT ![c] =
                after_attack_type(call, call.k, kept)]
    /\ UNCHANGED <<agent_vars, graph_vars, heal_vars, cache_vars,
                   vuln_vars, bench_vars, sec_vars, buggy_vars, gateway_vars,
                   clock_vars>>

\* generate() answers inside _generate_hardened_code, lines 283-289, and
\* harden_agent_security returns or is left by the exception
HardenCodeGenerated(c, outcome) ==
    /\ harden_calls[c].st = "hardening"
    /\ LET call == [harden_calls[c] EXCEPT
                       !.generated = Append(@, ~outcome.exc)]
       IN harden_calls' = [harden_calls EXCEPT ![c] =
             [call EXCEPT !.st = "done", !.outcome =
                 IF outcome.exc THEN RaisesExc(outcome.error)
                 ELSE Returns(hardened_result(call.agent_id, outcome.value,
                                              call.all_defenses))]]
    /\ UNCHANGED <<hardener, agent_vars, graph_vars, heal_vars, cache_vars,
                   vuln_vars, bench_vars, sec_vars, buggy_vars, gateway_vars,
                   clock_vars>>

\* hardening requests of several callers, in flight at the same time
HardenNext ==
    \/ \E c \in Callers, t \in HardenTasks : HardenStart(c, t)
    \/ \E c \in Callers, o \in DefenseOutcomes : HardenDefenseGenerated(c, o)
    \/ \E c \in Callers, o \in DefenseOutcomes : HardenCodeGenerated(c, o)

InitClock == clock = 0

\* ------------------------------------------------------- specifications
Init ==
    /\ InitAgents /\ InitGraph /\ InitHeal({"HealingAgent"})
    /\ InitCache /\ InitVuln /\ InitBench /\ InitSec
    /\ InitBuggy /\ InitGateway /\ InitHarden /\ InitClock

Next == AgentNext
Spec == Init /\ [][Next]_vars

NextConcurrent == ConcurrentNext
SpecConcurrent == Init /\ [][NextConcurrent]_vars

NextMetrics == MetricsNext
SpecMetrics == Init /\ [][NextMetrics]_vars

NextCreate == CreateNext
SpecCreate == Init /\ [][NextCreate]_vars

NextGraph == GraphNext
SpecGraph == Init /\ [][NextGraph]_vars

\* The runs of SpecGraph with every await answered.
SpecGraphFair == Init /\ [][NextGraph]_vars /\ WF_vars(GraphProgress)

\* Runs that can reach the Heal node.  Every await of a run is answered:
\* execute() and healing_agent.process() return or raise.
NextGraphIds ==
    \/ GraphNext
    \/ \E obj \in ConcAgents, agent_id \in ProcessorIds :
          CreateDataProcessor(obj, agent_id, "0a1b2c3d")
SpecGraphIds == Init /\ [][NextGraphIds]_vars

NextGraphHeal == GraphHealNext
SpecGraphHeal == Init /\ [][NextGraphHeal]_vars /\ WF_vars(GraphProgress)

InitAnyHealer ==
    /\ InitAgents /\ InitGraph /\ InitHeal(HealerKinds)
    /\ InitCache /\ InitVuln /\ InitBench /\ InitSec
    /\ InitBuggy /\ InitGateway /\ InitHarden /\ InitClock
NextHeal == HealNext
SpecHeal == InitAnyHealer /\ [][NextHeal]_vars

\* heal_agent calls of one caller while another caller runs tasks on the
\* agent they name as target
NextHealTarget ==
    \/ \E task \in Tasks : MetricsExecuteStart("c2", TheAgent, task)
    \/ \E p \in Payloads : ProcessReturns("c2", p)
    \/ \E e \in Errors : ProcessRaises("c2", e)
    \/ \E t \in {h \in HealTasks : h.target_agent = TheAgent} :
          HealAgentStart("c1", t)
    \/ \E o \in GenOutcomes : DiagnoseDone("c1", o)
    \/ \E o \in GenOutcomes : PlanDone("c1", o)
    \/ ExecuteHealingDone("c1")
SpecHealTarget == Init /\ [][NextHealTarget]_vars

NextHealClock == HealClockNext
SpecHealClock == InitAnyHealer /\ [][NextHealClock]_vars

NextCacheSeq == CacheSeqNext
SpecCacheSeq == Init /\ [][NextCacheSeq]_vars

NextCache == CacheNext
SpecCache == Init /\ [][NextCache]_vars

NextVuln == VulnNext
SpecVuln == Init /\ [][NextVuln]_vars

\* requests made one after the other to one SecurityHealingAgent, which
\* answers analyze_bug tasks as the CodeHealingAgent it extends
MaxSeqRequests == 4
SeqIdle ==
    /\ fix_calls["c1"].st # "generating"
    /\ sec_calls["c1"].st # "generating"
    /\ cache_log.requests + Len(sec_log) < MaxSeqRequests
NextSecSeq ==
    \/ \E r \in {b \in BugRequests : b.input \in {"special_case_1",
                                                   "special_case_22"}} :
          SeqIdle /\ AnalyzeStart("c1", r)
    \/ \E o \in GenOutcomes : AnalyzeGenerated("c1", o)
    \/ \E t \in {a \in AttackTasks : "attack_type" \in DOMAIN a
                                      => a.attack_type = "sql_injection"} :
          SeqIdle /\ SecAnalyzeStart("c1", t)
    \/ \E o \in GenOutcomes : SecAnalyzeGenerated("c1", o)
SpecSecSeq == Init /\ [][NextSecSeq]_vars

NextSec == SecNext
SpecSec == Init /\ [][NextSec]_vars

NextBenchChecks == BenchChecksNext
SpecBenchChecks == Init /\ [][NextBenchChecks]_vars

NextHarden == HardenNext
SpecHarden == Init /\ [][NextHarden]_vars

NextGateway == GatewayNext
SpecGateway == Init /\ [][NextGateway]_vars

NextBuggy == BuggyNext
SpecBuggy == Init /\ [][NextBuggy]_vars

NextBench == BenchNext
SpecBench == Init /\ [][NextBench]_vars

\* ---------------------------------------------------------------- claims

\* The status the threshold rule assigns to an error count.
StatusOf(error_count) ==
    IF error_count > 10 THEN "failed"
    ELSE IF error_count > 3 THEN "degraded"
    ELSE "healthy"

\* C1: in every state reached by interleaved execute() and heal() calls the
\* status of an agent is the one the thresholds assign to its error_count
\* (failed above 10, degraded above 3, healthy otherwise), and the result
\* of the k-th consecutive failure reports that status for its count k.
C1_StatusFollowsErrorCount ==
    /\ \A a \in AgentObjs : agents[a].status = StatusOf(agents[a].error_count)
    /\ \A c \in Callers :
          (exec_calls[c].st = "done" /\ exec_calls[c].outcome = "raised") =>
              exec_calls[c].result.status =
                  StatusOf(exec_calls[c].result.error_count)

\* an agent that failed after its eleventh consecutive error, and a caller
\* told "degraded" with error_count = 5
C1_Witness ==
    /\ agents[TheAgent].error_count = 11
    /\ agents[TheAgent].status = "failed"
    /\ Len(agents[TheAgent].healing_history) = 0
    /\ agents[TheAgent].metrics.successful_requests = 0
    /\ \E c \in Callers :
          /\ exec_calls[c].st = "done"
          /\ exec_calls[c].outcome = "raised"
          /\ exec_calls[c].result.error_count = 5
          /\ exec_calls[c].result.status = "degraded"

\* C2: every heal() step, whatever the state it is taken in, leaves
\* status = healthy and error_count = 0 and appends exactly one entry to
\* healing_history; so a second heal() changes neither status nor
\* error_count.
C2_HealResets ==
    [][\A a \in AgentObjs :
         LET before == agents[a]
             after == agents'[a]
             n == Len(before.healing_history)
         IN after.healing_history # before.healing_history =>
              /\ after.status = "healthy"
              /\ after.error_count = 0
              /\ Len(after.healing_history) = n + 1
              /\ SubSeq(after.healing_history, 1, n) = before.healing_history
              /\ after.healing_history[n + 1].old_error_count = before.error_count
              /\ after.metrics = before.metrics
              /\ after.error_history = before.error_history]_vars

\* heal() taken on a failed agent, then taken again right after
C2_Witness ==
    LET h == agents[TheAgent].healing_history
    IN /\ Len(h) = 2
       /\ h[1].old_error_count > 10
       /\ h[2].old_error_count = 0
       /\ agents[TheAgent].status = "healthy"
       /\ agents[TheAgent].error_count = 0

\* C3: every execute() call ends by returning a result, never by raising;
\* success is true exactly when process() returned, and a failure result
\* carries the text of the fault and the error_count and status the agent
\* has after the update.
C3_ExecuteReturnsStructuredResult ==
    [][\A c \in Callers :
         (exec_calls'[c] # exec_calls[c] /\ exec_calls'[c].st = "done") =>
            LET call == exec_calls'[c]
                r == call.result
            IN /\ ~r.raised
               /\ r.success = (call.outcome = "returned")
               /\ r.agent_id = agents'[call.agent].agent_id
               /\ call.outcome = "raised" =>
                    /\ r.error = call.raised_error
                    /\ r.error_count = agents'[call.agent].error_count
                    /\ r.error_count = agents[call.agent].error_count + 1
                    /\ r.status = agents'[call.agent].status]_vars

\* one call that failed on a degraded agent while another call succeeded
C3_Witness ==
    /\ exec_calls["c1"].st = "done"
    /\ exec_calls["c1"].outcome = "raised"
    /\ exec_calls["c1"].result.status = "degraded"
    /\ exec_calls["c2"].st = "done"
    /\ exec_calls["c2"].outcome = "returned"
    /\ exec_calls["c2"].result.success

\* C4: once Dispatch is over, the errors map has one entry for each of the
\* K agents whose task handler raised, and the run goes to Heal exactly
\* when K > 0.
C4_ErrorsMapHasKEntries ==
    /\ graph.step \in {"processed", "heal", "end"} =>
          Cardinality(DOMAIN graph.errors) = Cardinality(graph.faulted)
    /\ graph.step \in {"heal", "end"} =>
          (graph.step = "heal" <=> Cardinality(graph.faulted) > 0)

FirstStored(bug_pattern) ==
    LET i == CHOOSE k \in DOMAIN cache_log.stored :
                /\ cache_log.stored[k].pattern = bug_pattern
                /\ \A j \in 1..(k - 1) : cache_log.stored[j].pattern # bug_pattern
    IN cache_log.stored[i].fix

\* C6: when requests are made one after the other, a request whose (error,
\* input) derives a signature under which a fix is stored ends at once with
\* action = apply_existing_fix, carries the fix the generating request
\* stored, calls generate() not at all and leaves the cache as it is.
C6_CacheRoundTrip ==
    [][\A c \in Callers :
         LET call == fix_calls'[c]
         IN (/\ cache_log'.requests = cache_log.requests + 1
             /\ fix_calls'[c] # fix_calls[c]
             /\ call.pattern \in DOMAIN coder.code_fixes) =>
                /\ call.st = "done"
                /\ call.result.success
                /\ call.result.action = "apply_existing_fix"
                /\ call.result.pattern = call.pattern
                /\ call.result.fix = FirstStored(call.pattern)
                /\ cache_log'.generate = cache_log.generate
                /\ coder' = coder]_vars

\* a hit answered with the fix that another (error, input) pair generated
C6_Witness ==
    /\ fix_calls["c1"].st = "done"
    /\ fix_calls["c1"].result.success
    /\ fix_calls["c1"].result.action = "apply_existing_fix"
    /\ fix_calls["c1"].req.input = "special_case_22"
    /\ fix_calls["c1"].result.fix.input_example = "special_case_1"
    /\ Len(cache_log.generate) = 1

\* C7: for one signature generate() is called at most once, and the fix
\* stored under it is never replaced by another one.
C7_GenerateAtMostOncePerSignature ==
    /\ \A i, j \in DOMAIN cache_log.generate :
          cache_log.generate[i] = cache_log.generate[j] => i = j
    /\ \A i, j \in DOMAIN cache_log.stored :
          cache_log.stored[i].pattern = cache_log.stored[j].pattern =>
              cache_log.stored[i].fix = cache_log.stored[j].fix

ScriptInput == "<script>alert(1)</script>"
AdminInput == "admin' OR '1'='1"

\* Whether a measure was registered for the category when the call ran.
Defended(call, attack) ==
    /\ attack \in DOMAIN call.measures
    /\ call.measures[attack] # PyFalse

\* C8: an execute() of the script input fails with the xss security
\* violation while no measure is registered for xss, and returns the
\* blocked result with protected = true once one is.
C8_ScriptBlockedOnceDefended ==
    \A c \in Callers :
        (vuln_calls[c].st = "done" /\ vuln_calls[c].task.input = ScriptInput) =>
            LET call == vuln_calls[c]
                r == call.result
            IN IF Defended(call, "xss")
               THEN /\ r.success
                    /\ r.result.result = "Attack blocked"
                    /\ r.result.protected
               ELSE /\ ~r.success
                    /\ r.error = "Security vulnerability exploited: xss"

\* the script input failed first and was blocked afterwards
C8_Witness ==
    /\ vuln_calls["c1"].st = "done"
    /\ vuln_calls["c1"].task.input = ScriptInput
    /\ vuln_calls["c1"].result.success
    /\ vuln_calls["c1"].result.result.protected
    /\ Len(vuln.error_history) = 1
    /\ vuln.error_history[1].task.input = ScriptInput
    /\ vuln.error_history[1].error = "Security vulnerability exploited: xss"

\* The registry order of the attack categories.
RegistryOrder == <<"sql_injection", "xss", "path_traversal", "brute_force">>

\* The first category in registry order that the call detected and that had
\* no measure; 0 when there is none.
FirstUndefended(call) ==
    LET open == {k \in DOMAIN RegistryOrder :
                    /\ in_list(RegistryOrder[k], call.detected)
                    /\ ~Defended(call, RegistryOrder[k])}
    IN IF open = {} THEN 0
       ELSE CHOOSE k \in open : \A m \in open : k <= m

\* C9: an input matching no category is processed normally; one whose
\* detected categories all have a measure gets the blocked result and no
\* fault; otherwise the fault names the first detected category in registry
\* order that has no measure.
C9_FaultNamesFirstUndefended ==
    \A c \in Callers :
        vuln_calls[c].st = "done" =>
            LET call == vuln_calls[c]
                r == call.result
                k == FirstUndefended(call)
            IN IF Len(call.detected) = 0
               THEN /\ r.success
                    /\ "protected" \notin DOMAIN r.result
               ELSE IF k = 0
               THEN /\ r.success
                    /\ r.result.protected
                    /\ r.result.attacks_detected = call.detected
               ELSE /\ ~r.success
                    /\ r.error = "Security vulnerability exploited: "
                                    \o RegistryOrder[k]

\* two categories detected, the first defended: the fault names the second
C9_Witness ==
    /\ vuln_calls["c1"].st = "done"
    /\ vuln_calls["c1"].detected = <<"sql_injection", "brute_force">>
    /\ Defended(vuln_calls["c1"], "sql_injection")
    /\ ~vuln_calls["c1"].result.success
    /\ vuln_calls["c1"].result.error =
          "Security vulnerability exploited: brute_force"

\* C10: every call of _detect_attacks on one input returned the same list,
\* whatever measures were registered and whatever was logged before; the
\* admin input always yields a list with sql_injection in it; and the
\* attempts logged carry the list detected.
C10_DetectionDependsOnInputOnly ==
    /\ \A e1, e2 \in detect_log : e1.input = e2.input => e1.detected = e2.detected
    /\ \A e \in detect_log :
          e.input = AdminInput => in_list("sql_injection", e.detected)
    /\ \A i \in DOMAIN vuln.attack_attempts :
          [input |-> vuln.attack_attempts[i].input,
           detected |-> vuln.attack_attempts[i].attacks] \in detect_log

\* the admin input detected twice, a measure registered for each of its
\* categories before the second call
C10_Witness ==
    /\ Len(vuln.attack_attempts) = 2
    /\ vuln.attack_attempts[1].input = AdminInput
    /\ vuln.attack_attempts[2].input = AdminInput
    /\ Len(vuln.error_history) = 1
    /\ vuln.security_measures["sql_injection"] # PyFalse
    /\ "brute_force" \in DOMAIN vuln.security_measures

\* The counters of an agent that execute() writes.
Counters(ag) ==
    <<ag.metrics.total_requests, ag.metrics.successful_requests,
      ag.metrics.total_errors, ag.error_count>>

\* C11: under every interleaving of execute() calls of two callers on two
\* agents, no counter update is lost: each start adds one to total_requests
\* of the called agent, each return of process() one to
\* successful_requests, each raise one to error_count and to total_errors,
\* a call changes no other agent, and so in every state total_requests is
\* the number of calls that returned, raised or are still in flight.
C11_NoLostUpdate ==
    /\ [](\A a \in AgentObjs :
            /\ agents[a].metrics.total_requests =
                  agents[a].metrics.successful_requests
                  + agents[a].metrics.total_errors
                  + Cardinality(in_flight_on(a))
            /\ agents[a].error_count = agents[a].metrics.total_errors
            /\ Len(agents[a].error_history) = agents[a].metrics.total_errors)
    /\ [][\A c \in Callers :
            exec_calls'[c] # exec_calls[c] =>
               LET call == exec_calls'[c]
                   a == call.agent
                   before == Counters(agents[a])
                   after == Counters(agents'[a])
               IN /\ \A b \in AgentObjs \ {a} : agents'[b] = agents[b]
                  /\ call.st = "processing" =>
                        after = <<before[1] + 1, before[2], before[3], before[4]>>
                  /\ (call.st = "done" /\ call.outcome = "returned") =>
                        after = <<before[1], before[2] + 1, before[3], before[4]>>
                  /\ (call.st = "done" /\ call.outcome = "raised") =>
                        after = <<before[1], before[2], before[3] + 1,
                                  before[4] + 1>>]_vars

\* two calls in flight on a1 at the same time, one returned and one raised,
\* while a2 served a call of its own
C11_Witness ==
    /\ exec_calls["c1"].st = "done" /\ exec_calls["c2"].st = "done"
    /\ exec_calls["c1"].agent = "a1" /\ exec_calls["c2"].agent = "a1"
    /\ exec_calls["c2"].concurrent_with = {"c1"}
    /\ exec_calls["c1"].outcome = "raised"
    /\ exec_calls["c2"].outcome = "returned"
    /\ Counters(agents["a1"]) = <<2, 1, 1, 1>>
    /\ Counters(agents["a2"]) = <<1, 1, 0, 0>>

\* C12: whatever execute() or heal() calls follow a get_metrics() call,
\* every field read from the dict it returned, the nested metrics counters
\* included, still has the value it had when the call returned.
C12_MetricsSnapshotImmutable ==
    \A c \in Callers :
        metrics_calls[c].st = "done" =>
            read_metrics_dict(metrics_calls[c].returned) = metrics_calls[c].as_read

\* C13: there is a fixed bound B that the length of error_history never
\* exceeds, however many execute() calls fail.  The model lets one agent
\* fail MaxExec times, so the statement is taken with every B below
\* MaxExec: the history never reaches MaxExec entries.
C13_ErrorHistoryBounded ==
    \A a \in AgentObjs : Len(agents[a].error_history) < MaxExec

\* C14: in every reachable state get_metrics() reports needs_healing true
\* exactly when error_count > 3, which is exactly when the status it
\* reports is degraded or failed; right after a heal() step it reports
\* false.
C14_NeedsHealingFlag ==
    /\ [](\A a \in AgentObjs :
            LET m == get_metrics(a)
            IN /\ m.needs_healing <=> m.error_count > 3
               /\ m.needs_healing <=> m.status \in {"degraded", "failed"}
               /\ m.error_count = agents[a].error_count)
    /\ [][\A a \in AgentObjs :
            Len(agents'[a].healing_history) > Len(agents[a].healing_history)
                => ~(get_metrics(a).needs_healing)']_vars

\* an agent healed while degraded (flag true, then false) that degraded
\* again: the flag is true once more
C14_Witness ==
    /\ Len(agents[TheAgent].healing_history) = 1
    /\ agents[TheAgent].healing_history[1].old_error_count = 4
    /\ agents[TheAgent].error_count = 4
    /\ get_metrics(TheAgent).needs_healing
    /\ get_metrics(TheAgent).status = "degraded"

\* What every newly created agent starts with.
StartsClean(ag) ==
    /\ ag.status = "healthy"
    /\ ag.error_count = 0
    /\ ag.metrics = [total_requests |-> 0, successful_requests |-> 0,
                     average_response_time |-> ZeroTime, total_errors |-> 0]
    /\ ag.error_history = <<>>
    /\ ag.healing_history = <<>>

\* C15 as stated: a newly created agent keeps the id it was given, has type
\* "generic" when none is given, and starts healthy with error_count 0,
\* the four metric counters 0 and both histories empty.
C15_NewAgentKeepsGivenId ==
    \A c \in Callers :
        new_calls[c].st = "done" =>
            LET call == new_calls[c]
            IN /\ call.agent_id.given =>
                     call.created.agent_id = call.agent_id.value
               /\ ~call.agent_type.given => call.created.agent_type = "generic"
               /\ StartsClean(call.created)

\* C15 amended: a newly created agent keeps the id it was given when that
\* id is not the empty string; given an empty id, or none, it gets the id
\* <type>_<8 hex digits>.  It has type "generic" when none is given, and
\* starts healthy with error_count 0, the four metric counters 0 and both
\* histories empty.
C15_NewAgentKeepsNonEmptyId ==
    \A c \in Callers :
        new_calls[c].st = "done" =>
            LET call == new_calls[c]
                type == IF call.agent_type.given THEN call.agent_type.value
                        ELSE "generic"
            IN /\ call.created.agent_id =
                     IF call.agent_id.given /\ call.agent_id.value # ""
                     THEN call.agent_id.value
                     ELSE type \o "_" \o call.hex
               /\ call.created.agent_type = type
               /\ StartsClean(call.created)

\* TestAgent("test_agent"), as in test_agent_creation
C15_Witness ==
    \E c \in Callers :
        /\ new_calls[c].st = "done"
        /\ new_calls[c].agent_id = Given("test_agent")
        /\ new_calls[c].agent_type = NotGiven
        /\ agents[new_calls[c].obj].agent_id = "test_agent"
        /\ agents[new_calls[c].obj].agent_type = "generic"

\* How far a run has got: Dispatch, routing, Heal, Done.
StageRank(step) ==
    CASE step = "idle" -> 0
      [] step = "start" -> 1
      [] step = "processed" -> 2
      [] step = "heal" -> 3
      [] step = "healing" -> 4
      [] step = "end" -> 5

Dispatched(g) == {g.agents[k] : k \in DOMAIN g.agents}

\* C17: from the routing decision on, so before any healing attempt of the
\* Heal stage begins, the execute() call of every dispatched agent has
\* completed: none is in flight, the results and errors maps together hold
\* an outcome for each of the N agents, and the route taken is the one
\* these maps give.
C17_DispatchIsJoinBarrier ==
    graph.step \in {"processed", "heal", "healing", "end"} =>
        /\ graph.i = Len(graph.agents) + 1
        /\ DOMAIN graph.results \cup DOMAIN graph.errors = Dispatched(graph)
        /\ DOMAIN graph.results \cap DOMAIN graph.errors = {}
        /\ DOMAIN graph.errors = graph.faulted \cap UnguardedAgents
        /\ graph.step = "processed" => ~graph.awaiting
        /\ graph.step \in {"heal", "healing"} => DOMAIN graph.errors # {}
        /\ (graph.step = "end" /\ "attempts" \notin DOMAIN graph)
              => DOMAIN graph.errors = {}
        /\ "attempts" \in DOMAIN graph =>
              \A k \in DOMAIN graph.attempts :
                  graph.attempts[k].target_agent \in DOMAIN graph.errors

\* a healing attempt in flight, the three execute() calls over: two
\* returned a result and one raised
C17_Witness ==
    /\ graph.step = "healing"
    /\ graph.awaiting
    /\ graph.agents = <<"x1", "a1", "x2">>
    /\ DOMAIN graph.errors = {"x1"}
    /\ DOMAIN graph.results = {"a1", "x2"}
    /\ ~graph.results["a1"].success

\* The agents with an execute() call in flight: a request counted that has
\* neither succeeded nor failed yet.
ExecuteInFlight ==
    {a \in AgentObjs :
        agents[a].metrics.total_requests >
            agents[a].metrics.successful_requests + agents[a].metrics.total_errors}

\* Dispatch as the code makes it: no state has two execute() calls in
\* flight.
AtMostOneExecuteInFlight == Cardinality(ExecuteInFlight) <= 1

\* C18: Dispatch fans out concurrently, so a run over two or more agents
\* passes through a state in which the execute() calls of two different
\* agents are in flight at the same time.
C18_DispatchOverlaps ==
    (graph.step = "start" /\ Len(graph.agents) >= 2)
        ~> (Cardinality(ExecuteInFlight) >= 2)

\* C19: the Heal stage calls the healing pipeline once for every key of
\* the errors map, with target_agent the key and issue the error text
\* stored under it, whether or not earlier attempts raised; when the stage
\* is over healing_results holds exactly the keys whose attempt returned;
\* and a stage that was entered ends in Done.
C19_HealStageBestEffort ==
    /\ [](graph.step \in {"healing", "end"} /\ "attempts" \in DOMAIN graph =>
            LET keys == error_keys(graph)
                n == Len(graph.attempts)
            IN /\ n <= Len(keys)
               /\ \A k \in 1..n :
                     /\ graph.attempts[k].target_agent = keys[k]
                     /\ graph.attempts[k].issue = graph.errors[keys[k]]
                     /\ graph.attempts[k].type = "heal_agent"
               /\ DOMAIN graph.healing_results \cap graph.swallowed = {}
               /\ DOMAIN graph.healing_results \cup graph.swallowed
                     = {keys[k] : k \in 1..(IF graph.awaiting THEN n - 1 ELSE n)}
               /\ \A id \in DOMAIN graph.healing_results :
                     /\ graph.healing_results[id].success
                     /\ graph.healing_results[id].operation.target_agent = id
               /\ graph.step = "end" =>
                     /\ n = Len(keys)
                     /\ Cardinality(DOMAIN graph.errors) = n)
    /\ (graph.step = "healing") ~> (graph.step = "end")

\* the attempt for the first key raised, the attempt for the second was
\* still made and returned, and the run is Done
C19_Witness ==
    /\ graph.step = "end"
    /\ "attempts" \in DOMAIN graph
    /\ error_keys(graph) = <<"x2", "x1">>
    /\ Len(graph.attempts) = 2
    /\ graph.swallowed = {"x2"}
    /\ DOMAIN graph.healing_results = {"x1"}

\* The responses that are JSON documents.
JsonResponses == {"{\"root_cause\": \"db\"}"}

\* C20: the diagnosis of a finished heal_agent call is the parsed document
\* when generate() returned JSON, the raw text marked parsed = false when
\* it returned other text, and when generate() raised the fallback with
\* severity "High" and an unknown root cause; two calls with the same
\* generate() outcome have the same diagnosis whatever their issue.
C20_DiagnoseOutcomes ==
    \A c \in Callers :
        heal_calls[c].st = "done" =>
            LET g == heal_calls[c].gen1
                d == heal_calls[c].result.operation.diagnosis
            IN /\ g.exc =>
                     /\ DOMAIN d = {"error", "fallback_diagnosis"}
                     /\ d.fallback_diagnosis.severity = "High"
                     /\ d.fallback_diagnosis.root_cause \in
                           {"Unknown - requires manual investigation",
                            "Unknown - requires investigation"}
               /\ (~g.exc /\ g.value \in JsonResponses) =>
                     d = [json |-> g.value]
               /\ (~g.exc /\ g.value \notin JsonResponses) =>
                     \E key \in {"ai_analysis", "analysis"} :
                        /\ DOMAIN d = {key, "parsed"}
                        /\ d[key] = g.value
                        /\ d.parsed = FALSE
               /\ \A c2 \in Callers :
                     (heal_calls[c2].st = "done" /\ heal_calls[c2].gen1 = g) =>
                        heal_calls[c2].result.operation.diagnosis = d

\* two finished calls for different issues whose generate() raised at the
\* diagnose stage: both hold the same fallback diagnosis
C20_Witness ==
    /\ heal_calls["c1"].st = "done" /\ heal_calls["c2"].st = "done"
    /\ heal_calls["c1"].task.issue # heal_calls["c2"].task.issue
    /\ heal_calls["c1"].gen1.exc /\ heal_calls["c2"].gen1.exc
    /\ heal_calls["c1"].result.operation.diagnosis.fallback_diagnosis.severity = "High"
    /\ heal_calls["c1"].result.operation.issue # heal_calls["c2"].result.operation.issue

\* C21: whenever validate_fix has been called, its improvement_score is the
\* sum of the four check contributions (parses, has error handling, has
\* input validation, share of the expected fixes named) divided by 4, lies
\* between 0 and 1, and valid is true exactly when the score exceeds one
\* half; without a generated fix it answers valid = false with score 0.
C21_ValidateFixScore ==
    bench.call.op = "validate_fix" =>
        LET c == bench.call
            score == c.result.improvement_score
            expected == dict_get(c.test_case, "expected_fixes", <<>>)
            n == IF Len(expected) > 0 THEN Len(expected) ELSE 1
            text == remove_char(lower(c.fix_result.fix_code), "_")
            sum_times_n == whole_checks(c.fix_result.fix_code) * n
                               + addressed_from(expected, text, 1)
        IN IF ~c.fix_result.fix_generated
           THEN c.result.valid = FALSE /\ score.num = 0 /\ score.den > 0
           ELSE /\ score.den > 0
                /\ score.num * 4 * n = sum_times_n * score.den
                /\ 0 <= score.num /\ score.num <= score.den
                /\ c.result.valid = (2 * score.num > score.den)

\* a generated fix that passes exactly two of the four checks is not valid
C21_Witness ==
    /\ bench.call.op = "validate_fix"
    /\ bench.call.fix_result.fix_generated
    /\ 2 * bench.call.result.improvement_score.num
           = bench.call.result.improvement_score.den
    /\ bench.call.result.valid = FALSE

\* the text holds the letters z, e, r, o in a row, in any letter case
MentionsZero(code) ==
    \E i \in 1..(Len(code) - 3) :
        /\ SubSeq(code, i, i) \in {"z", "Z"}
        /\ SubSeq(code, i + 1, i + 1) \in {"e", "E"}
        /\ SubSeq(code, i + 2, i + 2) \in {"r", "R"}
        /\ SubSeq(code, i + 3, i + 3) \in {"o", "O"}

\* C22: whenever analyze_buggy_code has been called on a source text with a
\* division operator and no "zero" in any letter case, the labels it found
\* include division_by_zero; on a text that has the keyword they do not.
C22_DivisionLabel ==
    bench.call.op = "analyze_buggy_code" =>
        LET code == bench.call.test_case.original_code
            reported == in_list("division_by_zero", bench.call.result.bugs_found)
        IN /\ (contains(code, "/") /\ ~MentionsZero(code)) => reported
           /\ MentionsZero(code) => ~reported

\* a division next to the keyword in capitals was analysed, and not reported
C22_Witness ==
    /\ bench.call.op = "analyze_buggy_code"
    /\ contains(bench.call.test_case.original_code, "/")
    /\ contains(bench.call.test_case.original_code, "ZERO")
    /\ ~in_list("division_by_zero", bench.call.result.bugs_found)

\* the healing agent as initialize_healing_agent creates it
FreshHealingAgent == [code_fixes |-> EmptyDict, bug_patterns |-> EmptyDict]

\* the two results report the same fix_generated, fix_valid, fix_improvement
SameFixOutcome(r1, r2) ==
    /\ r1.fix_generated = r2.fix_generated
    /\ r1.fix_valid = r2.fix_valid
    /\ r1.fix_improvement.num * r2.fix_improvement.den
           = r2.fix_improvement.num * r1.fix_improvement.den

\* C23: with a deterministic stand-in for the LLM, every result of a run
\* reports the fix_generated, fix_valid and fix_improvement that its case
\* gets when it is the first case of a run, whatever ran before it.
C23_ResultIndependentOfEarlierCases ==
    \A i \in DOMAIN bench.results :
        SameFixOutcome(bench.results[i].result,
                       run_test_case(FreshHealingAgent, bench.llm,
                                     bench.results[i].test_case).result)

\* C24: the steps of an execute() call change only what the call is said to
\* change.  Entering adds one to total_requests; the return of process()
\* adds one to successful_requests and leaves error_count, total_errors,
\* status, error_history and healing_history as they were; a raise adds one
\* to error_count and to total_errors, appends one entry to error_history
\* and leaves successful_requests and healing_history as they were.
C24_ExecuteFrame ==
    [][\A c \in Callers :
          exec_calls'[c] # exec_calls[c] =>
             LET call == exec_calls'[c]
                 before == agents[call.agent]
                 after == agents'[call.agent]
             IN /\ call.st = "processing" =>
                      after = [before EXCEPT !.metrics.total_requests = @ + 1]
                /\ (call.st = "done" /\ call.outcome = "returned") =>
                      /\ after.metrics.successful_requests
                            = before.metrics.successful_requests + 1
                      /\ after.metrics.total_requests
                            = before.metrics.total_requests
                      /\ after.error_count = before.error_count
                      /\ after.metrics.total_errors = before.metrics.total_errors
                      /\ after.status = before.status
                      /\ after.error_history = before.error_history
                      /\ after.healing_history = before.healing_history
                /\ (call.st = "done" /\ call.outcome = "raised") =>
                      /\ after.error_count = before.error_count + 1
                      /\ after.metrics.total_errors
                            = before.metrics.total_errors + 1
                      /\ Len(after.error_history)
                            = Len(before.error_history) + 1
                      /\ SubSeq(after.error_history, 1,
                                Len(before.error_history))
                            = before.error_history
                      /\ after.metrics.successful_requests
                            = before.metrics.successful_requests
                      /\ after.metrics.total_requests
                            = before.metrics.total_requests
                      /\ after.healing_history = before.healing_history]_vars

\* a call returned on a degraded agent, which is still degraded and still
\* has its errors counted
C24_Witness ==
    \E c \in Callers :
        /\ exec_calls[c].st = "done"
        /\ exec_calls[c].outcome = "returned"
        /\ agents[exec_calls[c].agent].status = "degraded"
        /\ agents[exec_calls[c].agent].error_count > DegradedThreshold
        /\ agents[exec_calls[c].agent].metrics.successful_requests > 0

\* C25: once process_tasks has returned, the results map and the errors
\* map have no key in common and together hold as many entries as agents
\* were dispatched.
C25_MapsPartitionDispatched ==
    (graph.step \in {"processed", "heal", "end"}) =>
        /\ DOMAIN graph.results \cap DOMAIN graph.errors = {}
        /\ Cardinality(DOMAIN graph.results) + Cardinality(DOMAIN graph.errors)
              = Len(graph.agents)

\* The steps a heal_agent call may take from one stage to the next.
HealStageSteps ==
    {<<"idle", "diagnose">>, <<"done", "diagnose">>, <<"diagnose", "plan">>,
     <<"plan", "execute">>, <<"execute", "done">>}

\* C26: a heal_agent call passes through diagnose, plan and execute in this
\* order and through each once; the generate call of the plan stage is made
\* with the diagnosis the diagnose stage returned, also when that is the
\* fallback diagnosis, so a finished call has made exactly two generate
\* calls; and the log grows only in the step that ends an execute stage, by
\* the operation of that call.
C26_StagesInOrder ==
    /\ [](\A c \in Callers :
            LET call == heal_calls[c] IN
            /\ call.st = "diagnose" =>
                  /\ Len(call.generate_calls) = 1
                  /\ call.generate_calls[1].stage = "diagnose"
            /\ call.st \in {"plan", "execute", "done"} =>
                  /\ Len(call.generate_calls) = 2
                  /\ call.generate_calls[1].stage = "diagnose"
                  /\ call.generate_calls[2].stage = "plan"
                  /\ call.generate_calls[2].diagnosis
                        = ai_diagnose(healer.kind, call.gen1).value
                  /\ call.gen1.exc =>
                        "fallback_diagnosis"
                            \in DOMAIN call.generate_calls[2].diagnosis
            /\ call.st = "done" =>
                  call.result.operation.diagnosis
                      = call.generate_calls[2].diagnosis)
    /\ [][/\ \A c \in Callers :
               heal_calls'[c] # heal_calls[c] =>
                   <<heal_calls[c].st, heal_calls'[c].st>> \in HealStageSteps
          /\ healer'.healing_operations # healer.healing_operations =>
               \E c \in Callers :
                   /\ heal_calls[c].st = "execute"
                   /\ heal_calls'[c].st = "done"
                   /\ healer'.healing_operations
                         = Append(healer.healing_operations,
                                  heal_calls'[c].result.operation)]_vars

\* a call whose diagnose stage fell back has finished: it made the generate
\* call of the plan stage with the fallback diagnosis, and its operation is
\* the last of the log
C26_Witness ==
    \E c \in Callers :
        /\ heal_calls[c].st = "done"
        /\ heal_calls[c].gen1.exc
        /\ Len(heal_calls[c].generate_calls) = 2
        /\ "fallback_diagnosis"
               \in DOMAIN heal_calls[c].generate_calls[2].diagnosis
        /\ Len(healer.healing_operations) > 0
        /\ healer.healing_operations[Len(healer.healing_operations)]
               = heal_calls[c].result.operation

C28_LogAppendOnly ==
    [][LET log == healer.healing_operations
           after == healer'.healing_operations
           ended == {c \in Callers : /\ heal_calls[c].st = "execute"
                                     /\ heal_calls'[c].st = "done"}
       IN /\ Len(log) <= Len(after) /\ Len(after) <= Len(log) + 1
          /\ SubSeq(after, 1, Len(log)) = log
          /\ \A c \in ended : after = Append(log, heal_calls'[c].result.operation)
          /\ ended = {} => after = log]_vars

\* the calls of two callers have ended, and the log holds their two
\* operations, the one of c2 first
C28_Witness ==
    /\ heal_calls["c1"].st = "done" /\ heal_calls["c2"].st = "done"
    /\ heal_calls["c1"].task # heal_calls["c2"].task
    /\ healer.healing_operations
          = <<heal_calls["c2"].result.operation,
              heal_calls["c1"].result.operation>>

\* the entries of the history with this type and this outcome
SecCount(attack_type, outcome) ==
    Cardinality({i \in DOMAIN sec_log :
                    /\ sec_log[i].attack_type = attack_type
                    /\ sec_log[i].outcome = outcome})

\* C30: in every state the ledger has an entry for exactly the attack types
\* for which a generation succeeded, and occurrences and defenses_generated
\* of an entry both equal the number of those generations; a request that
\* is answered from the cache and a generation that fails leave the ledger
\* as it was.
C30_LedgerCountsGenerations ==
    /\ [](/\ DOMAIN sec.threat_intelligence
               = {sec_log[i].attack_type :
                     i \in {j \in DOMAIN sec_log : sec_log[j].outcome = "generated"}}
          /\ \A t \in DOMAIN sec.threat_intelligence :
               /\ sec.threat_intelligence[t].occurrences = SecCount(t, "generated")
               /\ sec.threat_intelligence[t].defenses_generated
                     = SecCount(t, "generated"))
    /\ [][(/\ Len(sec_log') = Len(sec_log) + 1
           /\ sec_log'[Len(sec_log')].outcome \in {"hit", "failed"})
              => sec'.threat_intelligence = sec.threat_intelligence]_vars

\* three requests of the type sql_injection: one generated a defense, one
\* was answered from the cache and one failed, and the ledger counts one
C30_Witness ==
    /\ SecCount("sql_injection", "generated") = 1
    /\ SecCount("sql_injection", "hit") = 1
    /\ SecCount("sql_injection", "failed") = 1
    /\ sec.threat_intelligence["sql_injection"].occurrences = 1
    /\ sec.threat_intelligence["sql_injection"].defenses_generated = 1

\* C29: a request whose generate() raised ends with success = false and
\* leaves the stores of the agent as they were: code_fixes and bug_patterns
\* for analyze_and_fix_bug, attack_defenses and threat_intelligence for
\* analyze_security_attack.  While such a request is the caller's last one
\* its signature is not cached, and a new request with that signature goes
\* to generate() again.
C29_FailedGenerationLeavesNoTrace ==
    /\ [](/\ (fix_calls["c1"].st = "done" /\ ~fix_calls["c1"].result.success)
                => fix_calls["c1"].pattern \notin DOMAIN coder.code_fixes
          /\ (sec_calls["c1"].st = "done" /\ ~sec_calls["c1"].result.success)
                => sec_calls["c1"].attack_hash \notin DOMAIN sec.attack_defenses)
    /\ [][/\ (fix_calls["c1"].st = "generating" /\ fix_calls'["c1"].st = "done")
               => \/ /\ ~fix_calls'["c1"].result.success
                     /\ coder' = coder
                     /\ UNCHANGED <<sec, cache_log>>
                  \/ /\ fix_calls'["c1"].result.success
                     /\ Len(cache_log'.stored) = Len(cache_log.stored) + 1
          /\ (sec_calls["c1"].st = "generating" /\ sec_calls'["c1"].st = "done")
               => \/ /\ ~sec_calls'["c1"].result.success
                     /\ sec' = sec
                     /\ coder' = coder
                  \/ /\ sec_calls'["c1"].result.success
                     /\ sec_calls'["c1"].attack_hash
                           \in DOMAIN sec'.attack_defenses
                     /\ sec_log'[Len(sec_log')].outcome = "generated"
          /\ (/\ fix_calls["c1"].st = "done"
              /\ ~fix_calls["c1"].result.success
              /\ fix_calls'["c1"] # fix_calls["c1"]
              /\ fix_calls'["c1"].pattern = fix_calls["c1"].pattern)
               => fix_calls'["c1"].st = "generating"
          /\ (/\ sec_calls["c1"].st = "done"
              /\ ~sec_calls["c1"].result.success
              /\ sec_calls'["c1"] # sec_calls["c1"]
              /\ sec_calls'["c1"].attack_hash = sec_calls["c1"].attack_hash)
               => sec_calls'["c1"].st = "generating"]_vars

\* after a failed generation each, both kinds of request were made again
\* with the same signature and went to generate() again, with empty stores
C29_Witness ==
    /\ fix_calls["c1"].st = "done"
    /\ ~fix_calls["c1"].result.success
    /\ Len(cache_log.generate) = 2
    /\ cache_log.generate[1] = cache_log.generate[2]
    /\ coder.code_fixes = EmptyDict /\ coder.bug_patterns = EmptyDict
    /\ sec_calls["c1"].st = "generating"
    /\ Len(sec_log) = 1
    /\ sec_log[1].outcome = "failed"
    /\ sec_log[1].attack_hash = sec_calls["c1"].attack_hash
    /\ sec.attack_defenses = EmptyDict /\ sec.threat_intelligence = EmptyDict

\* The categories VulnerableAgent.__init__ enters in security_measures.
TrackedMeasures == DOMAIN VulnerableAgent_init("vulnerable_agent").security_measures

\* C31: once a security measure is registered for every category tracked in
\* security_measures, every execute() whose input the detector classifies
\* as an attack returns the blocked result and none fails.
C31_ProtectedOnceAllTracked ==
    \A c \in Callers :
        (/\ vuln_calls[c].st = "done"
         /\ "measures" \in DOMAIN vuln_calls[c]
         /\ Len(vuln_calls[c].detected) > 0
         /\ \A k \in TrackedMeasures :
                truthy(dict_get(vuln_calls[c].measures, k, PyFalse)))
            => vuln_calls[c].result.success

\* the fault class that belongs to each registry entry (descriptions of
\* lines 23, 28 and 33)
FaultOfBug == <<"ZeroDivisionError", "ValueError", "MemoryError">>

\* C32: the fault raised for an input is the one belonging to the first
\* registry entry, in registry order, whose signature matches the input; an
\* input that matches no signature raises no fault.
C32_FirstMatchWins ==
    \A c \in Callers :
        buggy_calls[c].st = "done" =>
            LET first == triggered_bug(KnownBugs, buggy_calls[c].data)
            IN IF first = 0 THEN buggy_calls[c].fault = "none"
               ELSE buggy_calls[c].fault = FaultOfBug[first]

\* C33: once add_bug_fix has registered a fix for a bug category, an
\* execute() whose data matches that category returns success = true.
C33_FixedCategorySucceeds ==
    \A c \in Callers :
        (/\ buggy_calls[c].st = "done"
         /\ \E pat \in DOMAIN buggy_calls[c].fixes :
                re_search(re_compile(pat), buggy_calls[c].data, FALSE))
            => buggy_calls[c].result.success

\* C34: check (d) of validate_fix awards the share of the case's expected
\* labels that the fix text addresses: a fix text that contains every
\* expected label, letter case aside, gets the full point for the check, and
\* one that contains none gets 0.
C34_LabelShare ==
    (/\ bench.call.op = "validate_fix"
     /\ bench.call.fix_result.fix_generated
     /\ Len(dict_get(bench.call.test_case, "expected_fixes", <<>>)) > 0)
        => LET expected == bench.call.test_case.expected_fixes
               fix_code == bench.call.fix_result.fix_code
               holds(label) == contains(lower(fix_code), lower(label))
               passed == bench.call.result.checks_passed
               \* the points of check (d), times passed.den
               share == passed.num - whole_checks(fix_code) * passed.den
           IN /\ (\A k \in DOMAIN expected : holds(expected[k]))
                    => share = passed.den
              /\ (\A k \in DOMAIN expected : ~holds(expected[k]))
                    => share = 0

\* C35: in every result of a benchmark run, bugs_missed is exactly the set
\* of the case's expected labels that are not among the bugs_detected of
\* the result.
C35_MissedIsExpectedMinusDetected ==
    \A i \in DOMAIN bench.results :
        LET r == bench.results[i]
            expected == dict_get(r.test_case, "expected_fixes", <<>>)
            detected == r.result.bugs_detected
        IN r.result.bugs_missed
              = {expected[k] : k \in DOMAIN expected}
                    \ {detected[k] : k \in DOMAIN detected}

\* C36: harden_agent_security does not raise, whichever of its generate()
\* calls succeed or fail: every finished call has returned a dict with a
\* success flag.
C36_HardenNeverRaises ==
    \A c \in Callers :
        harden_calls[c].st = "done" => ~harden_calls[c].outcome.exc

\* C37: for each client at most 10 requests pass the rate-limit check of
\* the gateway, whatever the other clients send.
C37_AtMostTenPerClient ==
    \A k \in Clients : gateway_log[k] <= 10

\* C38: whenever no execute() is in flight on an agent, its total_requests
\* equal successful_requests plus total_errors, its error_history has
\* total_errors entries and its error_count is at most total_errors; and a
\* heal() changes none of the metric counters and leaves error_history as
\* it is, resetting only error_count.
C38_CountersBalance ==
    /\ [](\A a \in AgentObjs :
            in_flight_on(a) = {} =>
                /\ agents[a].metrics.total_requests
                      = agents[a].metrics.successful_requests
                            + agents[a].metrics.total_errors
                /\ Len(agents[a].error_history) = agents[a].metrics.total_errors
                /\ agents[a].error_count <= agents[a].metrics.total_errors)
    /\ [][\A a \in AgentObjs :
            Len(agents'[a].healing_history) > Len(agents[a].healing_history)
                => /\ agents'[a].metrics = agents[a].metrics
                   /\ agents'[a].error_history = agents[a].error_history
                   /\ agents'[a].error_count = 0]_vars

\* no call in flight on an agent that failed twice, was healed after the
\* first failure, and has also succeeded
C38_Witness ==
    /\ in_flight_on(TheAgent) = {}
    /\ agents[TheAgent].metrics.total_errors = 2
    /\ agents[TheAgent].error_count = 1
    /\ agents[TheAgent].metrics.successful_requests > 0
    /\ Len(agents[TheAgent].healing_history) = 1

\* C39: whenever analyze_security_attack answers with the action
\* apply_existing_defense, the attack_type recorded in the defense it
\* returns is the attack_type of the request.
C39_CachedDefenseMatchesRequest ==
    \A c \in Callers :
        (/\ sec_calls[c].st = "done"
         /\ sec_calls[c].result.success
         /\ sec_calls[c].result.action = "apply_existing_defense")
            => sec_calls[c].result.defense.attack_type
                  = sec_calls[c].attack_type

\* C40: no two records in the healing_operations log of a healing agent
\* carry the same operation_id, whether the heal_agent calls follow one
\* another or are in flight together.
C40_OperationIdsDistinct ==
    \A i, j \in DOMAIN healer.healing_operations :
        i # j => healer.healing_operations[i].operation_id
                    # healer.healing_operations[j].operation_id

====
